---- MODULE Spec2Model ----
(***************************************************************************)
(* Event distribution of Extensional-Agent: the emission gateway           *)
(* (agent_sdk.emit_event), the run lifecycle (AgentRunner.run), the        *)
(* asyncio scheduling of the detached publish and callback tasks, and the  *)
(* two consumer backends (VirtualConsumer, PersistentConsumer).            *)
(***************************************************************************)
EXTENDS Integers, Sequences, FiniteSets, TLC

\* ------------------------------------------------------------------ bounds
MaxRuns == 2          \* runs started in one behaviour
MaxEmits == 3         \* sequenced emits in one behaviour (all runs together)
MaxDepth == 2         \* AgentRunner.run calls nested in one task
MaxTokens == 2        \* subscribe calls in one behaviour
MaxDiskFailures == 1  \* failing disk writes in one behaviour
MaxLines == 2         \* lines of a log file found at start-up, and the seq values in them

\* ------------------------------------------------- configuration, constants
max_per_run == 2      \* VirtualConsumer(max_per_run), PersistentConsumer(max_memory_events)
batch_size == 2       \* PersistentConsumer(batch_size)
SeqEnd == 1000000000  \* iter(range(1, 10**9)): the iterator yields 1 .. SeqEnd - 1
NoRun == 0            \* _current_ctx default None
NoSeq == 0            \* first_seq / last_seq default None
NoToken == 0          \* task record field not in use

Tasks == {"t1", "t2"}
RunIds == 1..MaxRuns
Callbacks == {"healthy", "raising"}
Backends == {"virtual", "persistent"}

VARIABLES
    current_ctx,   \* task -> run id of the ExecutionContext its _current_ctx holds, or NoRun
    call_stack,    \* task -> the AgentRunner.run calls in progress in it, innermost last
    ctx,           \* run id -> ExecutionContext [seq: next value of the iterator, first_seq, last_seq]
    run_state,     \* run id -> "unused" | "running" | "returned" | "raised"
    run_task,      \* run id -> the task whose AgentRunner.run call it is, or "none"
    emit_result,   \* task -> what its last emit_event returned
    emitted,       \* history: the events built by emit_event, in call order
    ready,         \* the event loop's FIFO of runnable tasks
    backend,       \* which MessageConsumer the runner was given
    events,        \* run id -> deque(maxlen): _events / _memory_events
    subscribers,   \* run id -> <<[token, cb]>> in insertion order: _subscribers
    next_token,    \* _next_token
    lock_held,     \* PersistentConsumer._lock is locked (or being handed to a waiter)
    waiters,       \* FIFO of the tasks waiting for _lock
    write_buffer,  \* _write_buffer
    interval_elapsed, \* time.time() - _last_flush >= flush_interval
    disk,          \* run id -> lines of <run_id>.jsonl; <<>> when the file does not exist
    expired,       \* run ids whose log file's mtime precedes the retention window
    flusher,       \* the task suspended in _flush_to_disk's gather, or NoTask
    writes,        \* disk writes running in worker threads
    worker_busy,   \* the background worker is in a cycle (not asleep)
    pub_log,       \* history: every append of publish, with the subscriptions registered then
    publish_ended, \* history: how each publish call ended
    delivered,     \* history: the callback invocations, in order
    cleaned,       \* history: run ids cleanup was called for
    disk_failures  \* history: number of disk writes that failed

gatewayVars == <<current_ctx, call_stack, ctx, run_state, run_task, emit_result, emitted>>
memVars == <<events, subscribers, next_token>>
diskVars == <<lock_held, waiters, write_buffer, interval_elapsed, disk, expired,
              flusher, writes, worker_busy>>
histVars == <<pub_log, publish_ended, delivered, cleaned, disk_failures>>
consumerVars == <<memVars, diskVars, histVars>>
vars == <<gatewayVars, ready, backend, consumerVars>>

\* ------------------------------------------------------------------ values
\* AgentEvent: run_id and seq; version, timestamp, agent and record are carried along unread.
AgentEvent(r, n) == [run_id |-> r, seq |-> n]

\* EmitEventWarning(warning="no_execution_context").
EmitEventRaised == [kind |-> "raised", run_id |-> 0, seq |-> 0]
EmitEventWarning == [kind |-> "warning", run_id |-> NoRun, seq |-> NoSeq]

\* What emit_event returns for an event.
Returned(ev) == [kind |-> "event", run_id |-> ev.run_id, seq |-> ev.seq]

\* A fresh ExecutionContext as AgentRunner.run builds it.
ExecutionContext == [seq |-> 1, first_seq |-> NoSeq, last_seq |-> NoSeq]

\* A task of the event loop. kind: "publish" | "callback" | "worker"; phase: where
\* the coroutine resumes.
Task(kind, phase, r, n, token, cb) ==
    [kind |-> kind, phase |-> phase, run_id |-> r, seq |-> n, token |-> token, cb |-> cb]

NoTask == Task("none", "none", NoRun, NoSeq, NoToken, "none")

SeqToSet(s) == {s[i] : i \in 1..Len(s)}

\* ----------------------------------------------------------------- gateway
Init_gateway ==
    /\ current_ctx = [t \in Tasks |-> NoRun]
    /\ call_stack = [t \in Tasks |-> <<>>]
    /\ ctx = [r \in RunIds |-> ExecutionContext]
    /\ run_state = [r \in RunIds |-> "unused"]
    /\ run_task = [r \in RunIds |-> "none"]
    /\ emit_result = [t \in Tasks |-> [kind |-> "none", run_id |-> NoRun, seq |-> NoSeq]]
    /\ emitted = <<>>

\* _new_run_id(): a uuid4, never one handed out before.
new_run_id == Cardinality({r \in RunIds : run_state[r] # "unused"}) + 1

\* set_execution_context / clear_execution_context: ContextVar.set, which
\* changes the variable in the calling task's context only.
set_execution_context_global(t, r) == [u \in Tasks |-> r]
set_execution_context(t, r) == [current_ctx EXCEPT ![t] = r]
\* A clear that puts back the context of the run the ended run was nested in.
clear_execution_context_restoring(t) ==
    [current_ctx EXCEPT ![t] =
        IF Len(call_stack[t]) > 1 THEN call_stack[t][Len(call_stack[t]) - 1] ELSE NoRun]
clear_execution_context(t) == [current_ctx EXCEPT ![t] = NoRun]

\* AgentRunner.run up to the call of the agent: a new run id, a new context
\* with a fresh iterator, installed as the task's current context.
AgentRunner_run(t) ==
    /\ new_run_id \in RunIds
    /\ Len(call_stack[t]) < MaxDepth
    /\ LET r == new_run_id IN
        /\ ctx' = [ctx EXCEPT ![r] = ExecutionContext]
        /\ run_state' = [run_state EXCEPT ![r] = "running"]
        /\ run_task' = [run_task EXCEPT ![r] = t]
        /\ current_ctx' = set_execution_context(t, r)
        /\ call_stack' = [call_stack EXCEPT ![t] = Append(@, r)]
    /\ UNCHANGED <<emit_result, emitted, ready, backend, consumerVars>>

\* AgentRunner.run's finally block, entered when the agent returned or raised.
AgentRunner_run_no_finally(t, outcome) ==
    /\ call_stack[t] # <<>>
    /\ LET r == call_stack[t][Len(call_stack[t])] IN
        run_state' = [run_state EXCEPT ![r] = outcome]
    /\ current_ctx' = IF outcome = "returned" THEN clear_execution_context(t) ELSE current_ctx
    /\ call_stack' = [call_stack EXCEPT ![t] = SubSeq(@, 1, Len(@) - 1)]
    /\ UNCHANGED <<ctx, run_task, emit_result, emitted, ready, backend, consumerVars>>
AgentRunner_run_finally(t, outcome) ==
    /\ call_stack[t] # <<>>
    /\ LET r == call_stack[t][Len(call_stack[t])] IN
        run_state' = [run_state EXCEPT ![r] = outcome]
    /\ current_ctx' = clear_execution_context(t)
    /\ call_stack' = [call_stack EXCEPT ![t] = SubSeq(@, 1, Len(@) - 1)]
    /\ UNCHANGED <<ctx, run_task, emit_result, emitted, ready, backend, consumerVars>>

\* asyncio.create_task called by the agent: the child task u, which has not run
\* yet, starts with a copy of the parent's contextvars, so its _current_ctx is
\* the same ExecutionContext.
create_task_copy_context(t, u) ==
    /\ u # t
    /\ current_ctx[t] # NoRun
    /\ current_ctx[u] = NoRun
    /\ call_stack[u] = <<>>
    /\ emit_result[u].kind = "none"
    /\ \A r \in RunIds : run_task[r] # u
    /\ current_ctx' = [current_ctx EXCEPT ![u] = current_ctx[t]]
    /\ UNCHANGED <<call_stack, ctx, run_state, run_task, emit_result, emitted, ready, backend,
                   consumerVars>>

\* A fallback that starts the numbering over when the iterator is exhausted.
seq_value_restart(c) == IF c.seq < SeqEnd THEN c.seq ELSE 1

\* next(ctx.seq) with the StopIteration fallback (ctx.last_seq or 0) + 1.
seq_value_from_last(c) == IF c.last_seq = NoSeq THEN 1 ELSE c.last_seq
seq_value(c) == IF c.seq < SeqEnd THEN c.seq ELSE c.last_seq + 1

\* asyncio.create_task(ctx.vc.publish(event)): the publish coroutine is queued
\* on the loop and emit_event goes on without awaiting it.
await_publish(ev) ==
    /\ ~lock_held
    /\ ready' = Append(ready, Task("publish", "start", ev.run_id, ev.seq, NoToken, "none"))
create_task_publish(ev) ==
    ready' = Append(ready, Task("publish", "start", ev.run_id, ev.seq, NoToken, "none"))

\* emit_event: no context, a warning and nothing else; else the next seq, the
\* watermarks, the detached publish, and the event is returned.
\* An update that overwrites first_seq on every emit.
first_seq_update_always(c, n) == n
\* if ctx.first_seq is None: ctx.first_seq = seq_value
first_seq_update(c, n) == IF c.first_seq = NoSeq THEN n ELSE c.first_seq

emit_event(t) ==
    LET r == current_ctx[t] IN
    IF r = NoRun
    THEN /\ emit_result' = [emit_result EXCEPT ![t] = EmitEventWarning]
         /\ UNCHANGED <<current_ctx, call_stack, ctx, run_state, run_task, emitted, ready,
                        backend, consumerVars>>
    ELSE /\ Len(emitted) < MaxEmits
         /\ LET n == seq_value(ctx[r])
                ev == AgentEvent(r, n)
            IN  /\ ctx' = [ctx EXCEPT ![r] =
                            [seq |-> IF @.seq < SeqEnd THEN @.seq + 1 ELSE @.seq,
                             first_seq |-> first_seq_update(@, n),
                             last_seq |-> n]]
                /\ emitted' = Append(emitted, ev)
                /\ create_task_publish(ev)
                /\ emit_result' = [emit_result EXCEPT ![t] = Returned(ev)]
         /\ UNCHANGED <<current_ctx, call_stack, run_state, run_task, backend, consumerVars>>

\* --------------------------------------------------------- consumers, common
Init_consumer_state ==
    /\ ready = <<>>
    /\ events = [r \in RunIds |-> <<>>]
    /\ subscribers = [r \in RunIds |-> <<>>]
    /\ next_token = 1
    /\ lock_held = FALSE
    /\ waiters = <<>>
    /\ write_buffer = <<>>
    /\ interval_elapsed = FALSE
    /\ expired = {}
    /\ flusher = NoTask
    /\ writes = <<>>
    /\ worker_busy = FALSE
    /\ pub_log = <<>>
    /\ publish_ended = {}
    /\ delivered = <<>>
    /\ cleaned = {}
    /\ disk_failures = 0

\* A consumer constructed over an empty storage directory.
Init_consumer ==
    /\ Init_consumer_state
    /\ disk = [r \in RunIds |-> <<>>]

\* deque(maxlen=max_per_run).append: the oldest entry drops out of a full deque.
deque_append_unbounded(q, e) == Append(q, e)
deque_appendleft(q, e) == IF Len(q) < max_per_run THEN <<e>> \o q ELSE <<e>> \o SubSeq(q, 1, Len(q) - 1)
deque_append(q, e) == IF Len(q) < max_per_run THEN Append(q, e) ELSE Append(Tail(q), e)

\* for token, cb in list(self._subscribers[run_id].items()): create_task(_safe_callback(cb, event)),
\* one detached task per subscriber, in insertion order.
fan_out_until_raise(subs, ev) ==
    LET stop == {i \in 1..Len(subs) : subs[i].cb = "raising"}
        last == IF stop = {} THEN Len(subs) ELSE CHOOSE i \in stop : \A j \in stop : i <= j
    IN  [i \in 1..last |-> Task("callback", "start", ev.run_id, ev.seq, subs[i].token, subs[i].cb)]
fan_out(subs, ev) ==
    [i \in 1..Len(subs) |-> Task("callback", "start", ev.run_id, ev.seq, subs[i].token, subs[i].cb)]

\* A pop that falls back on the most recently inserted entry when the key is
\* absent (dict.popitem).
pop_token_or_last(subs, token) ==
    IF \E i \in 1..Len(subs) : subs[i].token = token
    THEN SelectSeq(subs, LAMBDA s : s.token # token)
    ELSE SubSeq(subs, 1, Len(subs) - 1)

\* dict.pop(token, None) on the run's subscriber table.
pop_token(subs, token) == SelectSeq(subs, LAMBDA s : s.token # token)

\* The history entry of one append of publish.
Published(ev) == [run_id |-> ev.run_id, seq |-> ev.seq, subs |-> SeqToSet(subscribers[ev.run_id])]

Ended(h, how) == [run_id |-> h.run_id, seq |-> h.seq, how |-> how]

\* A loop that runs the callback task queued last before those queued earlier.
safe_callback_newest_first ==
    /\ ready # <<>>
    /\ Head(ready).kind = "callback"
    /\ LET h == ready[Len(ready)] IN
        /\ h.kind = "callback"
        /\ delivered' = Append(delivered,
            [token |-> h.token, cb |-> h.cb, run_id |-> h.run_id, seq |-> h.seq,
             outcome |-> IF h.cb = "raising" THEN "swallowed" ELSE "ok"])
    /\ ready' = SubSeq(ready, 1, Len(ready) - 1)
    /\ UNCHANGED <<gatewayVars, backend, memVars, diskVars, pub_log, publish_ended, cleaned,
                   disk_failures>>

\* _safe_callback, run as its own task: the callback is called with the event
\* and whatever it raises is dropped.
safe_callback ==
    /\ ready # <<>>
    /\ Head(ready).kind = "callback"
    /\ LET h == Head(ready) IN
        delivered' = Append(delivered,
            [token |-> h.token, cb |-> h.cb, run_id |-> h.run_id, seq |-> h.seq,
             outcome |-> IF h.cb = "raising" THEN "swallowed" ELSE "ok"])
    /\ ready' = Tail(ready)
    /\ UNCHANGED <<gatewayVars, backend, memVars, diskVars, pub_log, publish_ended, cleaned,
                   disk_failures>>

\* --------------------------------------------------------- VirtualConsumer
\* publish: append to the run's deque, then one detached callback task per subscriber.
VirtualConsumer_publish_shared_deque ==
    /\ backend = "virtual"
    /\ ready # <<>>
    /\ Head(ready).kind = "publish"
    /\ LET h == Head(ready)
           ev == AgentEvent(h.run_id, h.seq)
       IN  /\ events' = [r \in RunIds |-> deque_append(events[r], ev)]
           /\ ready' = Tail(ready) \o fan_out(subscribers[h.run_id], ev)
           /\ pub_log' = Append(pub_log, Published(ev))
           /\ publish_ended' = publish_ended \cup {Ended(h, "returned")}
    /\ UNCHANGED <<gatewayVars, backend, subscribers, next_token, diskVars, delivered,
                   cleaned, disk_failures>>
VirtualConsumer_publish ==
    /\ backend = "virtual"
    /\ ready # <<>>
    /\ Head(ready).kind = "publish"
    /\ LET h == Head(ready)
           ev == AgentEvent(h.run_id, h.seq)
       IN  /\ events' = [events EXCEPT ![h.run_id] = deque_append(@, ev)]
           /\ ready' = Tail(ready) \o fan_out(subscribers[h.run_id], ev)
           /\ pub_log' = Append(pub_log, Published(ev))
           /\ publish_ended' = publish_ended \cup {Ended(h, "returned")}
    /\ UNCHANGED <<gatewayVars, backend, subscribers, next_token, diskVars, delivered,
                   cleaned, disk_failures>>

VirtualConsumer_subscribe_replay(r, cb) ==
    /\ backend = "virtual"
    /\ next_token <= MaxTokens
    /\ subscribers' = [subscribers EXCEPT ![r] = Append(@, [token |-> next_token, cb |-> cb])]
    /\ next_token' = next_token + 1
    /\ ready' = ready \o [i \in 1..Len(events[r]) |->
                    Task("callback", "start", r, events[r][i].seq, next_token, cb)]
    /\ UNCHANGED <<gatewayVars, backend, events, diskVars, histVars>>
\* A subscribe that hands out the counter's previous value again (its increment
\* lost to another subscribe).
VirtualConsumer_subscribe_stale_token(r, cb) ==
    /\ backend = "virtual"
    /\ next_token <= MaxTokens
    /\ LET token == IF next_token > 1 THEN next_token - 1 ELSE next_token IN
       subscribers' = [subscribers EXCEPT ![r] = Append(@, [token |-> token, cb |-> cb])]
    /\ next_token' = next_token + 1
    /\ UNCHANGED <<gatewayVars, ready, backend, events, diskVars, histVars>>
VirtualConsumer_subscribe(r, cb) ==
    /\ backend = "virtual"
    /\ next_token <= MaxTokens
    /\ subscribers' = [subscribers EXCEPT ![r] = Append(@, [token |-> next_token, cb |-> cb])]
    /\ next_token' = next_token + 1
    /\ UNCHANGED <<gatewayVars, ready, backend, events, diskVars, histVars>>

VirtualConsumer_unsubscribe(r, token) ==
    /\ backend = "virtual"
    /\ subscribers' = [subscribers EXCEPT ![r] = pop_token(@, token)]
    /\ UNCHANGED <<gatewayVars, ready, backend, events, next_token, diskVars, histVars>>

VirtualConsumer_cleanup(r) ==
    /\ backend = "virtual"
    /\ events' = [events EXCEPT ![r] = <<>>]
    /\ subscribers' = [subscribers EXCEPT ![r] = <<>>]
    /\ cleaned' = cleaned \cup {r}
    /\ UNCHANGED <<gatewayVars, ready, backend, next_token, diskVars, pub_log, publish_ended,
                   delivered, disk_failures>>

\* get_events: the deque's entries with seq > after_seq, in deque order.
VirtualConsumer_read(cache, after_seq) == SelectSeq(cache, LAMBDA e : e.seq > after_seq)
VirtualConsumer_get_events(r, after_seq) == VirtualConsumer_read(events[r], after_seq)

\* ------------------------------------------------------ PersistentConsumer
\* event.model_dump() then json.dumps(...) + "\n": one line of the run's log file.
\* A line's form says what reading it back does:
\*   "event"       a JSON object that AgentEvent(**d) accepts;
\*   "garbled"     no JSON (a partial or truncated line, an empty one) or an object
\*                 whose seq int() rejects with ValueError;
\*   "not_object"  JSON that is no object (null, a number, a string, a list) or an
\*                 object whose seq is null;
\*   "not_event"   a JSON object with an integer seq that AgentEvent(**d) rejects.
model_dump(ev) == [run_id |-> ev.run_id, seq |-> ev.seq, form |-> "event"]

\* A hand-over that frees the lock and wakes no waiter.
Release_without_wakeup(rdy) == [lock_held |-> FALSE, waiters |-> waiters, ready |-> rdy]

\* async with self._lock, leaving: the lock goes to the first waiter, which
\* becomes runnable; with no waiter it is free. rdy is the loop's queue so far.
Release(rdy) ==
    IF waiters = <<>>
    THEN [lock_held |-> FALSE, waiters |-> <<>>, ready |-> rdy]
    ELSE [lock_held |-> TRUE, waiters |-> Tail(waiters), ready |-> Append(rdy, Head(waiters))]

\* The run ids with an entry in the buffer.
RunsIn(buf) == {buf[i].run_id : i \in 1..Len(buf)}

RECURSIVE SortedSeq(_)
\* sorted(...) of a set of integers.
SortedSeq(S) ==
    IF S = {} THEN <<>>
    ELSE LET m == CHOOSE x \in S : \A y \in S : x <= y IN <<m>> \o SortedSeq(S \ {m})

\* A grouping that keeps the entries of the first run id only.
events_by_run_first_only(buf) ==
    LET rs == SortedSeq(RunsIn(buf))
    IN  [i \in 1..1 |->
            [run_id |-> rs[i],
             content |-> SelectSeq(buf, LAMBDA d : d.run_id = rs[i]),
             orphan |-> FALSE]]

\* _flush_to_disk up to gather: the buffer grouped by run id, one append write
\* per run id, each handed to a worker thread.
events_by_run(buf) ==
    LET rs == SortedSeq(RunsIn(buf))
    IN  [i \in 1..Len(rs) |->
            [run_id |-> rs[i],
             content |-> SelectSeq(buf, LAMBDA d : d.run_id = rs[i]),
             orphan |-> FALSE]]

\* A task that holds the lock enters _flush_to_disk with a non-empty buffer:
\* it is suspended in gather while the writes run.
BeginFlush(h, buf) ==
    /\ flusher' = h
    /\ writes' = writes \o events_by_run(buf)

\* _write_file_sync: file_path.open("a") and f.write(content).
write_file_sync_truncate(lines, content) == content
write_file_sync(lines, content) == lines \o content

\* A gather that cancels the writes still running when one of them fails.
DiskWrite_cancelling(i, ok) ==
    /\ i \in 1..Len(writes)
    /\ ok \/ disk_failures < MaxDiskFailures
    /\ LET w == writes[i]
           rest == [j \in 1..(Len(writes) - 1) |-> IF j < i THEN writes[j] ELSE writes[j + 1]]
       IN  /\ disk' = IF ok THEN [disk EXCEPT ![w.run_id] = write_file_sync(@, w.content)] ELSE disk
           /\ expired' = IF ok THEN expired \ {w.run_id} ELSE expired
           /\ disk_failures' = IF ok THEN disk_failures ELSE disk_failures + 1
           /\ IF ~ok
              THEN /\ writes' = <<>>
                   /\ ready' = Append(ready, [flusher EXCEPT !.phase = "failed"])
                   /\ flusher' = NoTask
              ELSE IF rest = <<>>
              THEN /\ writes' = rest
                   /\ ready' = Append(ready, [flusher EXCEPT !.phase = "flushed"])
                   /\ flusher' = NoTask
              ELSE /\ writes' = rest
                   /\ UNCHANGED <<flusher, ready>>
    /\ UNCHANGED <<gatewayVars, backend, memVars, lock_held, waiters, write_buffer,
                   interval_elapsed, worker_busy, pub_log, publish_ended, delivered, cleaned>>

\* One write of a flush ends in its worker thread (_write_file_sync appended the
\* content, or raised). gather returns once every write of the flush succeeded
\* and raises on the first one that failed; the other writes keep running.
DiskWrite(i, ok) ==
    /\ i \in 1..Len(writes)
    /\ ok \/ disk_failures < MaxDiskFailures
    /\ LET w == writes[i]
           rest == [j \in 1..(Len(writes) - 1) |-> IF j < i THEN writes[j] ELSE writes[j + 1]]
           live == \E j \in 1..Len(rest) : ~rest[j].orphan
       IN  /\ disk' = IF ok THEN [disk EXCEPT ![w.run_id] = write_file_sync(@, w.content)] ELSE disk
           /\ expired' = IF ok THEN expired \ {w.run_id} ELSE expired
           /\ disk_failures' = IF ok THEN disk_failures ELSE disk_failures + 1
           /\ IF w.orphan
              THEN /\ writes' = rest
                   /\ UNCHANGED <<flusher, ready>>
              ELSE IF ~ok
              THEN /\ writes' = [j \in 1..Len(rest) |-> [rest[j] EXCEPT !.orphan = TRUE]]
                   /\ ready' = Append(ready, [flusher EXCEPT !.phase = "failed"])
                   /\ flusher' = NoTask
              ELSE IF ~live
              THEN /\ writes' = rest
                   /\ ready' = Append(ready, [flusher EXCEPT !.phase = "flushed"])
                   /\ flusher' = NoTask
              ELSE /\ writes' = rest
                   /\ UNCHANGED <<flusher, ready>>
    /\ UNCHANGED <<gatewayVars, backend, memVars, lock_held, waiters, write_buffer,
                   interval_elapsed, worker_busy, pub_log, publish_ended, delivered, cleaned>>

\* A publish that does not take the lock: finding it held, it appends and fans
\* out all the same.
PersistentConsumer_publish_unlocked ==
    /\ backend = "persistent"
    /\ ready # <<>>
    /\ Head(ready).kind = "publish"
    /\ Head(ready).phase \in {"start", "locked"}
    /\ LET h == Head(ready)
           ev == AgentEvent(h.run_id, h.seq)
           buf == Append(write_buffer, model_dump(ev))
           rel == Release(Tail(ready) \o fan_out(subscribers[h.run_id], ev))
       IN  /\ events' = [events EXCEPT ![h.run_id] = deque_append(@, ev)]
           /\ write_buffer' = buf
           /\ pub_log' = Append(pub_log, Published(ev))
           /\ IF h.phase = "start" /\ lock_held
              THEN /\ ready' = Tail(ready) \o fan_out(subscribers[h.run_id], ev)
                   /\ publish_ended' = publish_ended \cup {Ended(h, "returned")}
                   /\ UNCHANGED <<lock_held, waiters, flusher, writes>>
              ELSE IF Len(buf) >= batch_size \/ interval_elapsed
              THEN /\ BeginFlush(h, buf)
                   /\ lock_held' = TRUE
                   /\ ready' = Tail(ready)
                   /\ UNCHANGED <<waiters, publish_ended>>
              ELSE /\ ready' = rel.ready
                   /\ lock_held' = rel.lock_held
                   /\ waiters' = rel.waiters
                   /\ publish_ended' = publish_ended \cup {Ended(h, "returned")}
                   /\ UNCHANGED <<flusher, writes>>
    /\ UNCHANGED <<gatewayVars, backend, subscribers, next_token, interval_elapsed, disk,
                   expired, worker_busy, delivered, cleaned, disk_failures>>

\* A publish that gives up when it finds the lock held instead of waiting.
PersistentConsumer_publish_trylock ==
    /\ backend = "persistent"
    /\ ready # <<>>
    /\ Head(ready).kind = "publish"
    /\ Head(ready).phase \in {"start", "locked"}
    /\ LET h == Head(ready)
           ev == AgentEvent(h.run_id, h.seq)
           buf == Append(write_buffer, model_dump(ev))
           rel == Release(Tail(ready) \o fan_out(subscribers[h.run_id], ev))
       IN  IF h.phase = "start" /\ lock_held
           THEN /\ ready' = Tail(ready)
                /\ publish_ended' = publish_ended \cup {Ended(h, "returned")}
                /\ UNCHANGED <<events, lock_held, waiters, write_buffer, flusher, writes, pub_log>>
           ELSE /\ events' = [events EXCEPT ![h.run_id] = deque_append(@, ev)]
                /\ write_buffer' = buf
                /\ pub_log' = Append(pub_log, Published(ev))
                /\ IF Len(buf) >= batch_size \/ interval_elapsed
                   THEN /\ BeginFlush(h, buf)
                        /\ lock_held' = TRUE
                        /\ ready' = Tail(ready)
                        /\ UNCHANGED <<waiters, publish_ended>>
                   ELSE /\ ready' = rel.ready
                        /\ lock_held' = rel.lock_held
                        /\ waiters' = rel.waiters
                        /\ publish_ended' = publish_ended \cup {Ended(h, "returned")}
                        /\ UNCHANGED <<flusher, writes>>
    /\ UNCHANGED <<gatewayVars, backend, subscribers, next_token, interval_elapsed, disk,
                   expired, worker_busy, delivered, cleaned, disk_failures>>

\* publish from its start to its first suspension: wait for the lock if it is
\* taken; else append to the cache and to the buffer and, at the batch size or
\* after the flush interval, flush; else fan out and leave the lock.
PersistentConsumer_publish ==
    /\ backend = "persistent"
    /\ ready # <<>>
    /\ Head(ready).kind = "publish"
    /\ Head(ready).phase \in {"start", "locked"}
    /\ LET h == Head(ready)
           ev == AgentEvent(h.run_id, h.seq)
           buf == Append(write_buffer, model_dump(ev))
           rel == Release(Tail(ready) \o fan_out(subscribers[h.run_id], ev))
       IN  IF h.phase = "start" /\ lock_held
           THEN /\ waiters' = Append(waiters, [h EXCEPT !.phase = "locked"])
                /\ ready' = Tail(ready)
                /\ UNCHANGED <<events, lock_held, write_buffer, flusher, writes, pub_log,
                               publish_ended>>
           ELSE /\ events' = [events EXCEPT ![h.run_id] = deque_append(@, ev)]
                /\ write_buffer' = buf
                /\ pub_log' = Append(pub_log, Published(ev))
                /\ IF Len(buf) >= batch_size \/ interval_elapsed
                   THEN /\ BeginFlush(h, buf)
                        /\ lock_held' = TRUE
                        /\ ready' = Tail(ready)
                        /\ UNCHANGED <<waiters, publish_ended>>
                   ELSE /\ ready' = rel.ready
                        /\ lock_held' = rel.lock_held
                        /\ waiters' = rel.waiters
                        /\ publish_ended' = publish_ended \cup {Ended(h, "returned")}
                        /\ UNCHANGED <<flusher, writes>>
    /\ UNCHANGED <<gatewayVars, backend, subscribers, next_token, interval_elapsed, disk,
                   expired, worker_busy, delivered, cleaned, disk_failures>>

\* A publish whose flush clears the buffer and resets the timer whether or not
\* gather raised.
PersistentConsumer_publish_resume_clearing ==
    /\ backend = "persistent"
    /\ ready # <<>>
    /\ Head(ready).kind = "publish"
    /\ Head(ready).phase \in {"flushed", "failed"}
    /\ LET h == Head(ready)
           ev == AgentEvent(h.run_id, h.seq)
           ok == h.phase = "flushed"
           rel == Release(IF ok THEN Tail(ready) \o fan_out(subscribers[h.run_id], ev)
                                ELSE Tail(ready))
       IN  /\ write_buffer' = <<>>
           /\ interval_elapsed' = FALSE
           /\ ready' = rel.ready
           /\ lock_held' = rel.lock_held
           /\ waiters' = rel.waiters
           /\ publish_ended' = publish_ended \cup {Ended(h, IF ok THEN "returned" ELSE "raised")}
    /\ UNCHANGED <<gatewayVars, backend, memVars, disk, expired, flusher, writes, worker_busy,
                   pub_log, delivered, cleaned, disk_failures>>

\* publish resumed after _flush_to_disk: gather returned, so the buffer is
\* cleared, the timer reset and the subscribers notified; or gather raised and
\* the exception leaves publish through the lock.
PersistentConsumer_publish_resume ==
    /\ backend = "persistent"
    /\ ready # <<>>
    /\ Head(ready).kind = "publish"
    /\ Head(ready).phase \in {"flushed", "failed"}
    /\ LET h == Head(ready)
           ev == AgentEvent(h.run_id, h.seq)
           ok == h.phase = "flushed"
           rel == Release(IF ok THEN Tail(ready) \o fan_out(subscribers[h.run_id], ev)
                                ELSE Tail(ready))
       IN  /\ write_buffer' = IF ok THEN <<>> ELSE write_buffer
           /\ interval_elapsed' = IF ok THEN FALSE ELSE interval_elapsed
           /\ ready' = rel.ready
           /\ lock_held' = rel.lock_held
           /\ waiters' = rel.waiters
           /\ publish_ended' = publish_ended \cup {Ended(h, IF ok THEN "returned" ELSE "raised")}
    /\ UNCHANGED <<gatewayVars, backend, memVars, disk, expired, flusher, writes, worker_busy,
                   pub_log, delivered, cleaned, disk_failures>>

\* subscribe, unsubscribe and cleanup run inside async with self._lock and are
\* not suspended where another lock user could act: a call is one step, taken
\* when the lock is free (a caller that finds it taken waits until then).
PersistentConsumer_subscribe(r, cb) ==
    /\ backend = "persistent"
    /\ ~lock_held
    /\ next_token <= MaxTokens
    /\ subscribers' = [subscribers EXCEPT ![r] = Append(@, [token |-> next_token, cb |-> cb])]
    /\ next_token' = next_token + 1
    /\ UNCHANGED <<gatewayVars, ready, backend, events, diskVars, histVars>>

PersistentConsumer_unsubscribe(r, token) ==
    /\ backend = "persistent"
    /\ ~lock_held
    /\ subscribers' = [subscribers EXCEPT ![r] = pop_token(@, token)]
    /\ UNCHANGED <<gatewayVars, ready, backend, events, next_token, diskVars, histVars>>

\* cleanup: the cache and the subscriber table of the run are dropped and its
\* log file, if there is one, is unlinked. The write buffer is left as it is.
PersistentConsumer_cleanup(r) ==
    /\ backend = "persistent"
    /\ ~lock_held
    /\ events' = [events EXCEPT ![r] = <<>>]
    /\ subscribers' = [subscribers EXCEPT ![r] = <<>>]
    /\ disk' = [disk EXCEPT ![r] = <<>>]
    /\ expired' = expired \ {r}
    /\ cleaned' = cleaned \cup {r}
    /\ UNCHANGED <<gatewayVars, ready, backend, next_token, lock_held, waiters, write_buffer,
                   interval_elapsed, flusher, writes, worker_busy, pub_log, publish_ended,
                   delivered, disk_failures>>

\* _cleanup_old_files_sync: every log file whose mtime precedes the cutoff is unlinked.
cleanup_old_files_sync == [r \in RunIds |-> IF r \in expired THEN <<>> ELSE disk[r]]

\* A critical section of the worker that sweeps and never flushes.
WorkerSection_sweep_only(h, rdy) ==
    LET rel == Release(rdy) IN
    /\ disk' = cleanup_old_files_sync
    /\ expired' = {}
    /\ ready' = rel.ready
    /\ lock_held' = rel.lock_held
    /\ waiters' = rel.waiters
    /\ worker_busy' = FALSE
    /\ UNCHANGED <<flusher, writes>>

\* The background worker's critical section from the lock on: with an empty
\* buffer _flush_to_disk returns at once and the retention sweep follows; else
\* the worker is suspended in the flush.
WorkerSection(h, rdy) ==
    IF write_buffer = <<>>
    THEN LET rel == Release(rdy) IN
         /\ disk' = cleanup_old_files_sync
         /\ expired' = {}
         /\ ready' = rel.ready
         /\ lock_held' = rel.lock_held
         /\ waiters' = rel.waiters
         /\ worker_busy' = FALSE
         /\ UNCHANGED <<flusher, writes>>
    ELSE /\ BeginFlush(h, write_buffer)
         /\ lock_held' = TRUE
         /\ ready' = rdy
         /\ worker_busy' = TRUE
         /\ UNCHANGED <<disk, expired, waiters>>

\* _background_worker: asyncio.sleep(flush_interval) is over and the worker
\* asks for the lock.
background_worker_wake ==
    /\ backend = "persistent"
    /\ ~worker_busy
    /\ LET h == Task("worker", "locked", NoRun, NoSeq, NoToken, "none") IN
       IF lock_held
       THEN /\ waiters' = Append(waiters, h)
            /\ worker_busy' = TRUE
            /\ UNCHANGED <<ready, lock_held, disk, expired, flusher, writes>>
       ELSE WorkerSection(h, ready)
    /\ UNCHANGED <<gatewayVars, backend, memVars, write_buffer, interval_elapsed, pub_log,
                   publish_ended, delivered, cleaned, disk_failures>>

\* A worker without the loop's except clause: the exception of a failed flush
\* ends the task, which leaves the lock and never sleeps again.
background_worker_resume_dying ==
    /\ backend = "persistent"
    /\ ready # <<>>
    /\ Head(ready).kind = "worker"
    /\ LET h == Head(ready)
           rel == Release(Tail(ready))
       IN  CASE h.phase = "locked" ->
                  /\ WorkerSection(h, Tail(ready))
                  /\ UNCHANGED <<write_buffer, interval_elapsed>>
             [] h.phase = "flushed" ->
                  /\ write_buffer' = <<>>
                  /\ interval_elapsed' = FALSE
                  /\ disk' = cleanup_old_files_sync
                  /\ expired' = {}
                  /\ ready' = rel.ready
                  /\ lock_held' = rel.lock_held
                  /\ waiters' = rel.waiters
                  /\ worker_busy' = FALSE
                  /\ UNCHANGED <<flusher, writes>>
             [] h.phase = "failed" ->
                  /\ ready' = rel.ready
                  /\ lock_held' = rel.lock_held
                  /\ waiters' = rel.waiters
                  /\ worker_busy' = TRUE
                  /\ UNCHANGED <<write_buffer, interval_elapsed, disk, expired, flusher, writes>>
    /\ UNCHANGED <<gatewayVars, backend, memVars, histVars>>

\* The worker resumed: with the lock after waiting for it; after its flush
\* (buffer cleared, timer reset, retention sweep); or with the flush's
\* exception, which the loop's except clause drops.
background_worker_resume ==
    /\ backend = "persistent"
    /\ ready # <<>>
    /\ Head(ready).kind = "worker"
    /\ LET h == Head(ready)
           rel == Release(Tail(ready))
       IN  CASE h.phase = "locked" ->
                  /\ WorkerSection(h, Tail(ready))
                  /\ UNCHANGED <<write_buffer, interval_elapsed>>
             [] h.phase = "flushed" ->
                  /\ write_buffer' = <<>>
                  /\ interval_elapsed' = FALSE
                  /\ disk' = cleanup_old_files_sync
                  /\ expired' = {}
                  /\ ready' = rel.ready
                  /\ lock_held' = rel.lock_held
                  /\ waiters' = rel.waiters
                  /\ worker_busy' = FALSE
                  /\ UNCHANGED <<flusher, writes>>
             [] h.phase = "failed" ->
                  /\ ready' = rel.ready
                  /\ lock_held' = rel.lock_held
                  /\ waiters' = rel.waiters
                  /\ worker_busy' = FALSE
                  /\ UNCHANGED <<write_buffer, interval_elapsed, disk, expired, flusher, writes>>
    /\ UNCHANGED <<gatewayVars, backend, memVars, histVars>>

\* Time passes: flush_interval seconds since the last flush.
FlushIntervalElapses ==
    /\ backend = "persistent"
    /\ ~interval_elapsed
    /\ interval_elapsed' = TRUE
    /\ UNCHANGED <<gatewayVars, ready, backend, memVars, lock_held, waiters, write_buffer, disk,
                   expired, flusher, writes, worker_busy, histVars>>

\* Time passes: retention_days since the last write to the run's log file.
RetentionElapses(r) ==
    /\ backend = "persistent"
    /\ disk[r] # <<>>
    /\ r \notin expired
    /\ expired' = expired \cup {r}
    /\ UNCHANGED <<gatewayVars, ready, backend, memVars, lock_held, waiters, write_buffer,
                   interval_elapsed, disk, flusher, writes, worker_busy, pub_log, publish_ended,
                   delivered, cleaned, disk_failures>>

\* _read_events_sync: every line is parsed on its own; json.JSONDecodeError and
\* ValueError skip the line, and the objects with seq > after_seq are kept.
read_events_sync(lines, after_seq) ==
    SelectSeq(lines, LAMBDA l : l.form \in {"event", "not_event"} /\ l.seq > after_seq)

\* _read_events_sync raises what its except clause does not name: event.get on
\* a value that is no object (AttributeError), int(None) (TypeError).
read_events_sync_raises(lines) == \E i \in 1..Len(lines) : lines[i].form = "not_object"

\* {e.seq: e for e in disk_events + memory_events}, then the values by sorted
\* key with seq > after_seq.
merge_unsorted(disk_events, memory_events, after_seq) == disk_events \o memory_events
merge_disk_wins(disk_events, memory_events, after_seq) ==
    LET all == memory_events \o disk_events
        last(n) == CHOOSE i \in 1..Len(all) :
                       /\ all[i].seq = n
                       /\ \A j \in 1..Len(all) : all[j].seq = n => j <= i
        keys == SortedSeq({all[i].seq : i \in 1..Len(all)})
        ordered == [k \in 1..Len(keys) |-> all[last(keys[k])]]
    IN  SelectSeq(ordered, LAMBDA e : e.seq > after_seq)
merge(disk_events, memory_events, after_seq) ==
    LET all == disk_events \o memory_events
        last(n) == CHOOSE i \in 1..Len(all) :
                       /\ all[i].seq = n
                       /\ \A j \in 1..Len(all) : all[j].seq = n => j <= i
        keys == SortedSeq({all[i].seq : i \in 1..Len(all)})
        ordered == [k \in 1..Len(keys) |-> all[last(keys[k])]]
    IN  SelectSeq(ordered, LAMBDA e : e.seq > after_seq)

\* A fast-path test that tolerates a gap of one seq.
cache_suffices_with_gap(memory_events, after_seq) ==
    memory_events # <<>> /\ memory_events[1].seq <= after_seq + 2

\* if memory_events and memory_events[0].seq <= after_seq + 1: the cache reaches
\* back to the first seq asked for.
cache_suffices(memory_events, after_seq) ==
    memory_events # <<>> /\ memory_events[1].seq <= after_seq + 1

\* The log file's events above after_seq as AgentEvent objects.
disk_events_of(lines, after_seq) ==
    LET disk_event_dicts == read_events_sync(lines, after_seq)
    IN  [i \in 1..Len(disk_event_dicts) |->
            AgentEvent(disk_event_dicts[i].run_id, disk_event_dicts[i].seq)]

\* get_events: the cache alone when its oldest entry above after_seq is at most
\* after_seq + 1, else the log file merged with the cache.
PersistentConsumer_read(cache, lines, after_seq) ==
    LET memory_events == SelectSeq(cache, LAMBDA e : e.seq > after_seq)
        disk_event_dicts == read_events_sync(lines, after_seq)
        disk_events == [i \in 1..Len(disk_event_dicts) |->
                           AgentEvent(disk_event_dicts[i].run_id, disk_event_dicts[i].seq)]
    IN  IF cache_suffices(memory_events, after_seq)
        THEN memory_events
        ELSE merge(disk_events, memory_events, after_seq)

\* get_events raises instead of returning: the cache does not answer alone, the
\* file exists, and _read_events_sync raises or AgentEvent(**event_dict) does.
PersistentConsumer_read_raises(cache, lines, after_seq) ==
    LET memory_events == SelectSeq(cache, LAMBDA e : e.seq > after_seq)
        disk_event_dicts == read_events_sync(lines, after_seq)
    IN  /\ ~cache_suffices(memory_events, after_seq)
        /\ lines # <<>>
        /\ \/ read_events_sync_raises(lines)
           \/ \E i \in 1..Len(disk_event_dicts) : disk_event_dicts[i].form = "not_event"
PersistentConsumer_get_events(r, after_seq) ==
    PersistentConsumer_read(events[r], disk[r], after_seq)

\* get_events of consumer b, given a run's cache and the lines of its log file.
read(b, cache, lines, after_seq) ==
    IF b = "virtual" THEN VirtualConsumer_read(cache, after_seq)
    ELSE PersistentConsumer_read(cache, lines, after_seq)

\* get_events of the consumer in use.
get_events(r, after_seq) ==
    IF backend = "virtual" THEN VirtualConsumer_get_events(r, after_seq)
    ELSE PersistentConsumer_get_events(r, after_seq)

\* A client's get_events call: it takes the lock (durable backend), reads the
\* cache and the log file and returns; nothing of the consumer changes.
get_events_call_draining(r, after_seq) ==
    /\ Len(get_events(r, after_seq)) >= 0
    /\ ~lock_held
    /\ events' = [events EXCEPT ![r] = <<>>]
    /\ UNCHANGED <<gatewayVars, ready, backend, subscribers, next_token, diskVars, histVars>>
get_events_call(r, after_seq) ==
    /\ Len(get_events(r, after_seq)) >= 0
    /\ ~lock_held
    /\ UNCHANGED vars

\* -------------------------------------------------------------- behaviours
Init ==
    /\ backend \in Backends
    /\ Init_gateway
    /\ Init_consumer

\* One task that starts runs (a second one inside the first) and emits.
Producer ==
    \/ AgentRunner_run("t1")
    \/ emit_event("t1")

\* Distribution: a producer, both backends, subscribers, the flush that publish
\* itself triggers and the background worker's flush.
Next ==
    \/ Producer
    \/ safe_callback
    \/ VirtualConsumer_publish
    \/ \E r \in RunIds, cb \in Callbacks : VirtualConsumer_subscribe(r, cb)
    \/ \E r \in RunIds, token \in 1..MaxTokens : VirtualConsumer_unsubscribe(r, token)
    \/ \E r \in RunIds : VirtualConsumer_cleanup(r)
    \/ PersistentConsumer_publish
    \/ PersistentConsumer_publish_resume
    \/ \E i \in 1..MaxRuns, ok \in BOOLEAN : DiskWrite(i, ok)
    \/ \E r \in RunIds, cb \in Callbacks : PersistentConsumer_subscribe(r, cb)
    \/ \E r \in RunIds, token \in 1..MaxTokens : PersistentConsumer_unsubscribe(r, token)
    \/ \E r \in RunIds : PersistentConsumer_cleanup(r)
    \/ background_worker_wake
    \/ background_worker_resume

Spec == Init /\ [][Next]_vars

\* Storage: a producer, both backends without subscribers, the background
\* worker, the flush interval and the retention window.
NextStore ==
    \/ Producer
    \/ VirtualConsumer_publish
    \/ \E r \in RunIds : VirtualConsumer_cleanup(r)
    \/ PersistentConsumer_publish
    \/ PersistentConsumer_publish_resume
    \/ \E i \in 1..MaxRuns, ok \in BOOLEAN : DiskWrite(i, ok)
    \/ \E r \in RunIds : PersistentConsumer_cleanup(r)
    \/ background_worker_wake
    \/ background_worker_resume
    \/ FlushIntervalElapses
    \/ \E r \in RunIds : RetentionElapses(r)
    \/ \E r \in RunIds, after_seq \in 0..MaxEmits : get_events_call(r, after_seq)

SpecStore == Init /\ [][NextStore]_vars

\* Gateway: tasks that start, nest and end runs, spawn child tasks and emit,
\* with the in-memory consumer taking the publishes.
InitGateway == Init /\ backend = "virtual"

NextGateway ==
    \/ \E t \in Tasks : AgentRunner_run(t)
    \/ \E t \in Tasks, outcome \in {"returned", "raised"} : AgentRunner_run_finally(t, outcome)
    \/ \E t \in Tasks, u \in Tasks : create_task_copy_context(t, u)
    \/ \E t \in Tasks : emit_event(t)
    \/ VirtualConsumer_publish

SpecGateway == InitGateway /\ [][NextGateway]_vars

\* Exhaustion: the gateway taken up in a long run of task t1 whose iterator is
\* at most MaxEmits values before its end; last_seq emits have been made.
InitExhaustion ==
    /\ backend = "virtual"
    /\ Init_consumer
    /\ current_ctx = [t \in Tasks |-> IF t = "t1" THEN 1 ELSE NoRun]
    /\ call_stack = [t \in Tasks |-> IF t = "t1" THEN <<1>> ELSE <<>>]
    /\ \E k \in (SeqEnd - MaxEmits)..(SeqEnd - 1) :
           ctx = [r \in RunIds |-> IF r = 1 THEN [seq |-> k + 1, first_seq |-> 1, last_seq |-> k]
                                            ELSE ExecutionContext]
    /\ run_state = [r \in RunIds |-> IF r = 1 THEN "running" ELSE "unused"]
    /\ run_task = [r \in RunIds |-> IF r = 1 THEN "t1" ELSE "none"]
    /\ emit_result = [t \in Tasks |-> [kind |-> "none", run_id |-> NoRun, seq |-> NoSeq]]
    /\ emitted = <<>>

SpecExhaustion == InitExhaustion /\ [][NextGateway]_vars

\* Batching: a producer and the durable backend's publish with the flush it
\* triggers itself, within one flush interval and between two background cycles.
InitBatch == Init /\ backend = "persistent"

NextBatch ==
    \/ Producer
    \/ PersistentConsumer_publish
    \/ PersistentConsumer_publish_resume
    \/ \E i \in 1..MaxRuns, ok \in BOOLEAN : DiskWrite(i, ok)

SpecBatch == InitBatch /\ [][NextBatch]_vars

\* Background flush: a producer that may stop at any time, the durable backend's
\* publish, the background worker, and disk writes that succeed. The event loop
\* runs every runnable task, the worker's sleep ends and the thread pool
\* finishes every write it was given.
NextBackground ==
    \/ Producer
    \/ PersistentConsumer_publish
    \/ PersistentConsumer_publish_resume
    \/ \E i \in 1..MaxRuns : DiskWrite(i, TRUE)
    \/ background_worker_wake
    \/ background_worker_resume

SpecBackground ==
    /\ InitBatch
    /\ [][NextBackground]_vars
    /\ WF_vars(PersistentConsumer_publish)
    /\ WF_vars(PersistentConsumer_publish_resume)
    /\ WF_vars(\E i \in 1..MaxRuns : DiskWrite(i, TRUE))
    /\ WF_vars(background_worker_wake)
    /\ WF_vars(background_worker_resume)

\* Replay: a consumer constructed over a storage directory that already holds
\* log files, whatever their lines, and clients that read.
Forms == {"event", "garbled", "not_object", "not_event"}

LogFiles(r) ==
    LET Lines == [run_id : {r}, seq : 1..MaxLines, form : Forms]
    IN  UNION {[1..n -> Lines] : n \in 0..MaxLines}

InitReplay ==
    /\ backend = "persistent"
    /\ Init_gateway
    /\ Init_consumer_state
    /\ disk \in [RunIds -> UNION {LogFiles(r) : r \in RunIds}]
    /\ \A r \in RunIds : disk[r] \in LogFiles(r)

NextReplay ==
    \E r \in RunIds, after_seq \in 0..MaxLines : get_events_call(r, after_seq)

SpecReplay == InitReplay /\ [][NextReplay]_vars

\* Merge: get_events of the durable backend applied to any cache of run 1 (in
\* seq order, as publish fills it) and any log file of run 1, whose lines may
\* disagree with the cache on what the event of a seq is (here: its run_id field).
Caches ==
    {c \in UNION {[1..n -> [run_id : {1}, seq : 1..(MaxLines + 1)]] : n \in 0..max_per_run} :
        \A i \in 1..(Len(c) - 1) : c[i].seq < c[i + 1].seq}

MergeFiles ==
    UNION {[1..n -> [run_id : RunIds, seq : 1..MaxLines, form : {"event", "garbled"}]] :
              n \in 0..MaxLines}

InitMerge ==
    /\ backend = "persistent"
    /\ Init_gateway
    /\ ready = <<>>
    /\ \E c \in Caches : events = [r \in RunIds |-> IF r = 1 THEN c ELSE <<>>]
    /\ subscribers = [r \in RunIds |-> <<>>]
    /\ next_token = 1
    /\ lock_held = FALSE
    /\ waiters = <<>>
    /\ write_buffer = <<>>
    /\ interval_elapsed = FALSE
    /\ expired = {}
    /\ flusher = NoTask
    /\ writes = <<>>
    /\ worker_busy = FALSE
    /\ pub_log = <<>>
    /\ publish_ended = {}
    /\ delivered = <<>>
    /\ cleaned = {}
    /\ disk_failures = 0
    /\ \E f \in MergeFiles : disk = [r \in RunIds |-> IF r = 1 THEN f ELSE <<>>]

SpecMerge == InitMerge /\ [][NextReplay]_vars

\* ------------------------------------------------------------------ claims
\* The run whose AgentRunner.run call is the innermost one in progress in task t.
OwnRun(t) == call_stack[t][Len(call_stack[t])]

\* Task t's emit_event returned an event in this step.
EmitReturnedEvent(t) ==
    /\ emit_result'[t] # emit_result[t]
    /\ emit_result'[t].kind = "event"

\* C1: within one run the k-th emit_event call gets seq k: every event's seq is
\* greater than that of every event emitted earlier in the same run and no two
\* events of a run share a seq, whichever tasks sharing the context emitted them.
C1_SeqInCallOrder ==
    /\ \A i, j \in 1..Len(emitted) :
            i < j /\ emitted[i].run_id = emitted[j].run_id => emitted[i].seq < emitted[j].seq
    /\ \A i \in 1..Len(emitted) :
            emitted[i].seq =
                Cardinality({j \in 1..i : emitted[j].run_id = emitted[i].run_id})

\* Two tasks that share one run's context have both emitted, three events in all.
C1_Witness ==
    \E r \in RunIds :
        /\ \A t \in Tasks : emit_result[t].kind = "event" /\ emit_result[t].run_id = r
        /\ ctx[r].last_seq = 3

\* C2: an emit_event with no active context returns the warning and changes
\* nothing else: no seq, no history entry, no task on the loop, no context, no
\* consumer state.
C2_NoContextWarning ==
    [][\A t \in Tasks :
            current_ctx[t] = NoRun /\ emit_result'[t] # emit_result[t] =>
                /\ emit_result'[t].kind = "warning"
                /\ UNCHANGED <<current_ctx, call_stack, ctx, run_state, run_task, emitted,
                               ready, backend, consumerVars>>]_vars

\* A task got the warning while the other task's run had emitted and was still running.
C2_Witness ==
    \E t \in Tasks, r \in RunIds :
        /\ emit_result[t].kind = "warning"
        /\ current_ctx[t] = NoRun
        /\ run_state[r] = "running"
        /\ ctx[r].last_seq >= 1
        /\ ready # <<>>

\* C4: an emit in a task that is executing a run of its own produces an event of
\* that run and changes the context (counter, first_seq, last_seq) of no other run.
C4_RunsIsolated ==
    [][\A t \in Tasks :
            EmitReturnedEvent(t) /\ call_stack[t] # <<>> =>
                /\ emit_result'[t].run_id = OwnRun(t)
                /\ emitted'[Len(emitted')].run_id = OwnRun(t)
                /\ \A r \in RunIds \ {OwnRun(t)} : ctx'[r] = ctx[r]]_vars

\* Two tasks, each in a run of its own, have both emitted.
C4_Witness ==
    /\ \A t \in Tasks :
            /\ call_stack[t] # <<>>
            /\ emit_result[t].kind = "event"
            /\ emit_result[t].run_id = OwnRun(t)
    /\ OwnRun("t1") # OwnRun("t2")
    /\ Len(emitted) = 3

\* C5: once a task's AgentRunner.run call has ended, by return or by exception,
\* the task's current context is cleared, and no emit of that task is given a seq
\* of the ended run.
C5_ContextCleared ==
    [][\A t \in Tasks :
            /\ Len(call_stack'[t]) < Len(call_stack[t]) => current_ctx'[t] = NoRun
            /\ EmitReturnedEvent(t) /\ run_task[emit_result'[t].run_id] = t =>
                    run_state[emit_result'[t].run_id] = "running"]_vars

\* A run that had emitted ended with an exception and its task's next emit got the warning.
C5_Witness ==
    \E t \in Tasks, r \in RunIds :
        /\ run_task[r] = t
        /\ run_state[r] = "raised"
        /\ ctx[r].last_seq >= 1
        /\ call_stack[t] = <<>>
        /\ emit_result[t].kind = "warning"

\* The events of run r in the order publish appended them.
PublishedEvents(r) ==
    LET mine == SelectSeq(pub_log, LAMBDA p : p.run_id = r)
    IN  [i \in 1..Len(mine) |-> AgentEvent(mine[i].run_id, mine[i].seq)]

\* The callback tasks created so far for subscription token and event (r, n),
\* still on the loop or already run.
CallbackCount(token, r, n) ==
    Cardinality({i \in 1..Len(ready) :
        /\ ready[i].kind = "callback"
        /\ ready[i].token = token /\ ready[i].run_id = r /\ ready[i].seq = n})
    + Cardinality({i \in 1..Len(delivered) :
        delivered[i].token = token /\ delivered[i].run_id = r /\ delivered[i].seq = n})

StrictlyAscending(s) == \A i \in 1..(Len(s) - 1) : s[i].seq < s[i + 1].seq

\* A get_events call can be in its critical section: nobody else holds the lock.
Readable == ~lock_held

\* C3: emit_event never waits for the publish it dispatched: a task with an
\* active context can complete an emit in every state, also while a publish
\* holds the consumer lock in a flush whose disk write does not end.
C3_EmitNeverWaits ==
    \A t \in Tasks :
        current_ctx[t] # NoRun /\ Len(emitted) < MaxEmits => ENABLED emit_event(t)

\* emit_event returned an event whose publish is suspended in a flush, lock
\* held and disk write unfinished, and the task can emit again.
C3_Witness ==
    /\ flusher.kind = "publish"
    /\ writes # <<>>
    /\ lock_held
    /\ emit_result["t1"] = Returned(AgentEvent(flusher.run_id, flusher.seq))
    /\ current_ctx["t1"] # NoRun
    /\ Len(emitted) < MaxEmits

\* C6, as stated: for a run that was not cleaned up, get_events(run, 0) returns
\* exactly the events published to it, in strictly increasing seq.
C6_AllPublishedReturned ==
    \A r \in RunIds :
        r \notin cleaned /\ Readable =>
            LET got == get_events(r, 0) IN
            /\ StrictlyAscending(got)
            /\ SeqToSet(got) = SeqToSet(PublishedEvents(r))
            /\ Len(got) = Len(PublishedEvents(r))

\* C6, amended: the same for a run with at most max_per_run (max_memory_events)
\* published events.
C6_AllReturnedWithinCapacity ==
    \A r \in RunIds :
        r \notin cleaned /\ Readable /\ Len(PublishedEvents(r)) <= max_per_run =>
            LET got == get_events(r, 0) IN
            /\ StrictlyAscending(got)
            /\ SeqToSet(got) = SeqToSet(PublishedEvents(r))
            /\ Len(got) = Len(PublishedEvents(r))

\* The durable backend holds max_per_run events of a run, flushed to its log file.
C6_Witness ==
    \E r \in RunIds :
        /\ backend = "persistent"
        /\ r \notin cleaned
        /\ Readable
        /\ Len(PublishedEvents(r)) = max_per_run
        /\ Len(disk[r]) = max_per_run
        /\ write_buffer = <<>>

\* C7: get_events(run, after_seq) returns events of that run only, each with
\* seq > after_seq, in strictly ascending seq (so no seq twice).
C7_AscendingAboveAfterSeq ==
    \A r \in RunIds, after_seq \in 0..MaxEmits :
        Readable =>
            LET got == get_events(r, after_seq) IN
            /\ StrictlyAscending(got)
            /\ \A i \in 1..Len(got) : got[i].run_id = r /\ got[i].seq > after_seq

\* The durable backend answers from the log file merged with the cache: the
\* oldest event has left the cache and is on disk, a later one is in both.
C7_Witness ==
    \E r \in RunIds :
        /\ backend = "persistent"
        /\ Readable
        /\ Len(events[r]) = max_per_run
        /\ events[r][1].seq = 2
        /\ Len(disk[r]) >= 2
        /\ Len(get_events(r, 0)) = 3

\* C8, the safety half: once a publish call has ended, every subscription that
\* was registered when it appended the event has exactly one callback task for
\* that event, on the loop or already run.
C8_PublishedEventsFannedOut ==
    \A i \in 1..Len(pub_log) :
        LET p == pub_log[i] IN
        (\E e \in publish_ended : e.run_id = p.run_id /\ e.seq = p.seq) =>
            \A sub \in p.subs : CallbackCount(sub.token, p.run_id, p.seq) = 1

\* C9: a raising subscriber neither costs a healthy subscriber of the same run
\* an event nor makes publish fail: whenever the raising callback's task for an
\* event exists, the healthy one's exists exactly once; what the callback raised
\* is dropped; and a publish ends with an exception only after a disk write failed.
C9_RaisingCallbackIsolated ==
    /\ \A i \in 1..Len(pub_log) :
            LET p == pub_log[i] IN
            \A bad \in p.subs, good \in p.subs :
                /\ bad.cb = "raising"
                /\ good.cb = "healthy"
                /\ CallbackCount(bad.token, p.run_id, p.seq) >= 1
                => CallbackCount(good.token, p.run_id, p.seq) = 1
    /\ \A i \in 1..Len(delivered) :
            delivered[i].outcome = (IF delivered[i].cb = "raising" THEN "swallowed" ELSE "ok")
    /\ \A e \in publish_ended : e.how = "raised" => disk_failures > 0

\* A raising subscriber registered before a healthy one of the same run; the
\* raising callback ran for two events and the healthy one got both.
C9_Witness ==
    \E r \in RunIds :
        /\ Len(subscribers[r]) = 2
        /\ subscribers[r][1].cb = "raising"
        /\ subscribers[r][2].cb = "healthy"
        /\ \A n \in 1..2 :
              \E i, j \in 1..Len(delivered) :
                  /\ i < j
                  /\ delivered[i] = [token |-> subscribers[r][1].token, cb |-> "raising",
                                     run_id |-> r, seq |-> n, outcome |-> "swallowed"]
                  /\ delivered[j] = [token |-> subscribers[r][2].token, cb |-> "healthy",
                                     run_id |-> r, seq |-> n, outcome |-> "ok"]

\* C10: a callback task exists only for an event whose publish found the
\* subscription registered; and subscribing takes nothing from get_events, which
\* returns every published event of a run within the cache capacity.
C10_OnlyEventsWhileSubscribed ==
    /\ \A i \in 1..Len(ready) :
            ready[i].kind = "callback" =>
                \E j \in 1..Len(pub_log) :
                    /\ pub_log[j].run_id = ready[i].run_id
                    /\ pub_log[j].seq = ready[i].seq
                    /\ [token |-> ready[i].token, cb |-> ready[i].cb] \in pub_log[j].subs
    /\ \A i \in 1..Len(delivered) :
            \E j \in 1..Len(pub_log) :
                /\ pub_log[j].run_id = delivered[i].run_id
                /\ pub_log[j].seq = delivered[i].seq
                /\ [token |-> delivered[i].token, cb |-> delivered[i].cb] \in pub_log[j].subs
    /\ \A r \in RunIds :
            r \notin cleaned /\ Readable /\ Len(PublishedEvents(r)) <= max_per_run =>
                get_events(r, 0) = PublishedEvents(r)

\* A subscriber added after seq 1 of a run was published has received seq 2 and
\* nothing else, and get_events(run, 0) returns both events.
C10_Witness ==
    \E r \in RunIds : \E sub \in SeqToSet(subscribers[r]) :
        /\ Len(pub_log) >= 2
        /\ pub_log[1] = [run_id |-> r, seq |-> 1, subs |-> {}]
        /\ pub_log[2] = [run_id |-> r, seq |-> 2, subs |-> {sub}]
        /\ delivered = <<[token |-> sub.token, cb |-> sub.cb, run_id |-> r, seq |-> 2,
                          outcome |-> "ok"]>>
        /\ ready = <<>>
        /\ Readable
        /\ Len(get_events(r, 0)) = 2

\* The last n entries of sequence s (all of s when it has fewer).
LastN(s, n) == IF Len(s) <= n THEN s ELSE SubSeq(s, Len(s) - n + 1, Len(s))

\* C11: the ring backend never holds more than max_per_run events of a run, and
\* for a run that was not cleaned up get_events(run, 0) returns the most recently
\* published min(N, max_per_run) of its N events, oldest first.
C11_RingKeepsNewest ==
    /\ \A r \in RunIds : Len(events[r]) <= max_per_run
    /\ backend = "virtual" =>
          \A r \in RunIds :
              r \notin cleaned =>
                  /\ Len(get_events(r, 0)) <= max_per_run
                  /\ get_events(r, 0) = LastN(PublishedEvents(r), max_per_run)

\* The ring backend took max_per_run + 1 events of one run and dropped seq 1.
C11_Witness ==
    \E r \in RunIds :
        /\ backend = "virtual"
        /\ r \notin cleaned
        /\ Len(PublishedEvents(r)) = max_per_run + 1
        /\ get_events(r, 0) = <<AgentEvent(r, 2), AgentEvent(r, 3)>>

\* Every event published to run r has been through a flush that succeeded and
\* the run was not cleaned up: nothing of r is pending in the write buffer.
FlushedAll(r) ==
    /\ backend = "persistent"
    /\ r \notin cleaned
    /\ PublishedEvents(r) # <<>>
    /\ \A i \in 1..Len(write_buffer) : write_buffer[i].run_id # r

\* get_events(r, 0) of a consumer whose memory cache of run r is gone.
ReplayFromDisk(r) == PersistentConsumer_read(<<>>, disk[r], 0)

PublishStep(r) ==
    /\ Len(pub_log') = Len(pub_log) + 1
    /\ pub_log'[Len(pub_log')].run_id = r

\* This step is a cleanup(r) call.
CleanupStep(r) == VirtualConsumer_cleanup(r) \/ PersistentConsumer_cleanup(r)

\* C13, as stated: a step that is no publish for run r (and no cleanup of it),
\* taken between two moments at which get_events can run, leaves the result of
\* get_events(r, k) as it was, for every k; also when no disk write ever failed.
C13_ReadsRepeatableAcrossCycles ==
    [][\A r \in RunIds, k \in 0..MaxEmits :
          /\ disk_failures' = 0
          /\ Readable /\ Readable'
          /\ ~PublishStep(r) /\ ~CleanupStep(r)
          => read(backend', events'[r], disk'[r], k) = read(backend, events[r], disk[r], k)]_vars

\* C13, amended: a step that is no publish for run r, no cleanup of it and
\* neither a write to nor a deletion of its log file leaves the result of
\* get_events(r, k) as it was, for every k: also a get_events call itself, a
\* publish for another run, and a background cycle that does not touch the file.
C13_ReadsRepeatable ==
    [][\A r \in RunIds, k \in 0..MaxEmits :
          ~PublishStep(r) /\ ~CleanupStep(r) /\ disk'[r] = disk[r]
          => read(backend', events'[r], disk'[r], k) = read(backend, events[r], disk[r], k)]_vars

\* get_events(r, 0) returns two events, and since the last publish for r another
\* run was published to and its events were flushed to its log file.
C13_Witness ==
    \E r \in RunIds, o \in RunIds :
        /\ backend = "persistent"
        /\ o # r
        /\ Readable
        /\ pub_log # <<>>
        /\ pub_log[Len(pub_log)].run_id = o
        /\ disk[o] # <<>>
        /\ write_buffer = <<>>
        /\ Len(get_events(r, 0)) = 2

\* cleanup(r) was called and no publish for r has run since: only a publish
\* appends to the run's cache and only cleanup empties it.
CleanedSinceLastPublish(r) == r \in cleaned /\ events[r] = <<>>

\* C14, for the stored events: after cleanup(r), with no later publish for r, the
\* run's log file does not exist and get_events(r, 0) is empty, in every later
\* state; also when no disk write ever failed.
C14_CleanupLeavesNothing ==
    \A r \in RunIds :
        CleanedSinceLastPublish(r) /\ disk_failures = 0 =>
            /\ disk[r] = <<>>
            /\ Readable => get_events(r, 0) = <<>>

\* This step is an outcome in the consumer layer: a publish call ended
\* (returned or raised), a callback ran (returned or raised), or a disk write failed.
ConsumerOutcomeStep ==
    \/ publish_ended' # publish_ended
    \/ delivered' # delivered
    \/ disk_failures' # disk_failures

\* C15, the producer's half: an emit_event by a task with an active context
\* returns the event, also after publishes have raised and callbacks have
\* failed; and no outcome in the consumer layer changes anything of the
\* producers: contexts, run states, what emit_event returned.
C15_ProducerUnaffected ==
    [][/\ \A t \in Tasks :
              current_ctx[t] # NoRun /\ emit_result'[t] # emit_result[t] =>
                  /\ emit_result'[t].kind = "event"
                  /\ emit_result'[t].run_id = current_ctx[t]
       /\ ConsumerOutcomeStep => gatewayVars' = gatewayVars]_vars

\* C15, as stated: emit_event with an active context has returned an event to
\* every producer that called it, and every failure of the dispatched publish
\* was absorbed in the consumer layer: no publish call has ended by raising.
C15_FailuresAbsorbedInConsumer ==
    /\ \A t \in Tasks : emit_result[t].kind \in {"none", "event", "warning"}
    /\ \A i \in 1..Len(delivered) : delivered[i].outcome \in {"ok", "swallowed"}
    /\ \A e \in publish_ended : e.how = "returned"

\* C16: for a run id that no publish was ever made for, get_events(run, k) is the
\* empty sequence for every k, on both backends, whatever was published, flushed,
\* swept or cleaned up for other runs (or cleaned up for this one).
C16_UnknownRunReadsEmpty ==
    \A r \in RunIds :
        PublishedEvents(r) = <<>> =>
            \A k \in 0..MaxEmits : get_events(r, k) = <<>>

\* Nothing was published for run r, while another run has events in the cache
\* and, on the durable backend, in its log file.
C16_Witness ==
    \E r \in RunIds, o \in RunIds :
        /\ PublishedEvents(r) = <<>>
        /\ Len(events[o]) = max_per_run
        /\ backend = "persistent" => disk[o] # <<>>
        /\ Readable
        /\ get_events(o, 0) # <<>>

\* The seq values of the lines of run r's log file that hold an event, above k.
EventLineSeqs(r, k) ==
    {disk[r][i].seq : i \in {j \in 1..Len(disk[r]) : disk[r][j].form = "event" /\ disk[r][j].seq > k}}

\* C20, as stated: whatever the lines of the log file, get_events does not raise
\* and returns the events of all lines that hold one (seq above after_seq).
C20_ReplayNeverFails ==
    \A r \in RunIds, k \in 0..MaxLines :
        /\ ~PersistentConsumer_read_raises(events[r], disk[r], k)
        /\ {e.seq : e \in SeqToSet(get_events(r, k))} = EventLineSeqs(r, k)

\* C20, for the lines the except clause covers: when every line of the file
\* either holds an event or is no JSON at all (partial, truncated, empty),
\* get_events does not raise and returns the events of all lines that hold one.
C20_GarbledLinesSkipped ==
    \A r \in RunIds, k \in 0..MaxLines :
        (\A i \in 1..Len(disk[r]) : disk[r][i].form \in {"event", "garbled"}) =>
            /\ ~PersistentConsumer_read_raises(events[r], disk[r], k)
            /\ {e.seq : e \in SeqToSet(get_events(r, k))} = EventLineSeqs(r, k)

\* A call of unsubscribe(r, token) of the backend in use runs in this step.
UnsubscribeStep(r, token) ==
    \/ VirtualConsumer_unsubscribe(r, token)
    \/ PersistentConsumer_unsubscribe(r, token)

Registered(r, token) == \E i \in 1..Len(subscribers[r]) : subscribers[r][i].token = token

\* C17: an unsubscribe(run_id, token) whose token is not registered for that run
\* changes no subscription, no stored event and no file, and after any
\* unsubscribe a second one with the same arguments would change nothing.
C17_UnsubscribeUnknownIsNoOp ==
    [][\A r \in RunIds, token \in 1..MaxTokens :
          UnsubscribeStep(r, token) =>
              /\ ~Registered(r, token) => UNCHANGED <<subscribers, events, disk, write_buffer, ready>>
              /\ ~Registered(r, token)'
              /\ pop_token(subscribers'[r], token) = subscribers'[r]
              /\ \A q \in RunIds \ {r} : subscribers'[q] = subscribers[q]]_vars

\* Nothing was cleaned up, an issued token has been removed by unsubscribe (so
\* every further unsubscribe with it finds it unregistered), and another
\* subscription is still registered.
C17_Witness ==
    /\ cleaned = {}
    /\ \E token \in 1..(next_token - 1) : \A r \in RunIds : ~Registered(r, token)
    /\ \E r \in RunIds : subscribers[r] # <<>>

\* No publish is queued, waiting for the lock or suspended in a flush, and no
\* write is running.
PublishesSettled ==
    /\ \A i \in 1..Len(ready) : ready[i].kind # "publish"
    /\ waiters = <<>>
    /\ ~lock_held
    /\ flusher = NoTask
    /\ writes = <<>>

RECURSIVE LinesOnDisk(_)
\* The number of lines in the log files of the runs in S.
LinesOnDisk(S) ==
    IF S = {} THEN 0
    ELSE LET r == CHOOSE x \in S : TRUE IN Len(disk[r]) + LinesOnDisk(S \ {r})

\* C18, as stated: once n publishes have settled within one flush interval,
\* floor(n / batch_size) flushes of batch_size entries each have been written and
\* n mod batch_size entries are pending.
C18_FlushEveryBatch ==
    PublishesSettled =>
        /\ Len(write_buffer) = Len(pub_log) % batch_size
        /\ LinesOnDisk(RunIds) = Len(pub_log) - (Len(pub_log) % batch_size)

\* C18, for flushes whose writes succeed: the same, as long as no write failed.
C18_FlushEveryBatchWhenWritesSucceed ==
    (PublishesSettled /\ disk_failures = 0) =>
        /\ Len(write_buffer) = Len(pub_log) % batch_size
        /\ LinesOnDisk(RunIds) = Len(pub_log) - (Len(pub_log) % batch_size)

\* A cycle of the background worker ends in this step: it leaves the critical
\* section and goes back to sleep.
WorkerCycleEnds ==
    /\ background_worker_wake \/ background_worker_resume
    /\ ~worker_busy'

\* The files after the step are those before it without the expired ones.
SweptInThisStep ==
    \A r \in RunIds : disk'[r] = IF r \in expired THEN <<>> ELSE disk[r]

\* C19, as stated: the step that ends a cycle of the background worker leaves
\* no log file older than the retention window and keeps every other file as
\* it was.
C19_EveryCycleSweeps ==
    [][WorkerCycleEnds => SweptInThisStep]_vars

\* C19, for the cycles whose flush did not fail: the same, when the worker does
\* not come back from its flush with an exception.
C19_CompletedCycleSweeps ==
    [][(WorkerCycleEnds /\ ~(ready # <<>> /\ Head(ready).kind = "worker"
                              /\ Head(ready).phase = "failed"))
          => SweptInThisStep]_vars

\* C21: an emit_event in a context whose iterator is exhausted returns an event
\* (not a warning, not an exception) with seq last_seq + 1, which is above the
\* seq of every event of the run so far, and leaves last_seq at that value, so
\* that the next emit continues from it.
C21_ExhaustionRecovered ==
    [][\A t \in Tasks :
          LET r == current_ctx[t] IN
          (emit_event(t) /\ emit_result'[t] # emit_result[t] /\ r # NoRun /\ ctx[r].seq >= SeqEnd) =>
              /\ emit_result'[t] = Returned(AgentEvent(r, ctx[r].last_seq + 1))
              /\ ctx'[r].last_seq = ctx[r].last_seq + 1
              /\ emitted' = Append(emitted, AgentEvent(r, ctx[r].last_seq + 1))
              /\ \A i \in 1..Len(emitted) :
                    emitted[i].run_id = r => emitted[i].seq < emit_result'[t].seq]_vars

\* The run crossed the end of its iterator: its events so far are the last value
\* the iterator yielded and two values assigned after it.
C21_Witness ==
    \E i, j, k \in 1..Len(emitted) :
        /\ i < j /\ j < k
        /\ emitted[i].run_id = 1 /\ emitted[j].run_id = 1 /\ emitted[k].run_id = 1
        /\ emitted[i].seq = SeqEnd - 1
        /\ emitted[j].seq = SeqEnd
        /\ emitted[k].seq = SeqEnd + 1

\* A call of subscribe(r, cb) of the backend in use runs in this step.
SubscribeStep(r, cb) ==
    \/ VirtualConsumer_subscribe(r, cb)
    \/ PersistentConsumer_subscribe(r, cb)

\* C22: the token a subscribe(r, cb) registers and returns is the token of no
\* subscription that was active for r when it was called, and of none active for
\* any other run, whatever subscribe, unsubscribe and cleanup calls preceded it.
C22_TokenUniqueAmongActive ==
    [][\A r \in RunIds, cb \in Callbacks :
          SubscribeStep(r, cb) =>
              LET token == subscribers'[r][Len(subscribers'[r])].token IN
              /\ Len(subscribers'[r]) = Len(subscribers[r]) + 1
              /\ \A q \in RunIds : ~\E i \in 1..Len(subscribers[q]) : subscribers[q][i].token = token
              /\ \A i, j \in 1..Len(subscribers'[r]) :
                    i # j => subscribers'[r][i].token # subscribers'[r][j].token]_vars

\* Two subscriptions are active for one run, the second made while the first
\* was active.
C22_Witness ==
    \E r \in RunIds : Len(subscribers[r]) = 2

\* A flush ends in this step: the task that was suspended in _flush_to_disk,
\* a publish or the background worker, resumes with phase "flushed" (every write
\* succeeded) or "failed" (gather raised).
FlushEnds(phases) ==
    /\ ready # <<>>
    /\ Head(ready).kind \in {"publish", "worker"}
    /\ Head(ready).phase \in phases
    /\ PersistentConsumer_publish_resume \/ background_worker_resume

\* C23, as stated: whenever a flush ends, whether its writes succeeded or one
\* failed, the pending buffer is empty and the flush timer has just been reset.
C23_FlushAlwaysClears ==
    [][FlushEnds({"flushed", "failed"}) => write_buffer' = <<>> /\ ~interval_elapsed']_vars

\* C23, for flushes whose writes all succeeded: the same.
C23_SuccessfulFlushClears ==
    [][FlushEnds({"flushed"}) => write_buffer' = <<>> /\ ~interval_elapsed']_vars

\* The buffer entry d is a line of its run's log file.
OnDisk(d) == \E j \in 1..Len(disk[d.run_id]) : disk[d.run_id][j] = d

\* The buffer entry d is in the content of a write that is still running.
InRunningWrite(d) ==
    \E i \in 1..Len(writes) : \E j \in 1..Len(writes[i].content) : writes[i].content[j] = d

\* The buffer went through a flush that failed: no flush is in progress and the
\* buffer is at the batch size or beyond.
FlushFailedBufferKept ==
    /\ flusher = NoTask
    /\ Len(write_buffer) >= batch_size

\* The runs with a buffer entry for which P does not hold.
RunsLacking(P(_)) == {write_buffer[i].run_id : i \in {j \in 1..Len(write_buffer) : ~P(write_buffer[j])}}

WrittenOrBeingWritten(d) == OnDisk(d) \/ InRunningWrite(d)

InBuffer(d) == \E i \in 1..Len(write_buffer) : write_buffer[i] = d

\* The event is in the cache of its run, or the cache is full of newer ones.
CachedOrEvicted(ev) ==
    \/ \E i \in 1..Len(events[ev.run_id]) : events[ev.run_id][i] = ev
    \/ Len(events[ev.run_id]) = max_per_run /\ events[ev.run_id][1].seq > ev.seq

WorkerInCycle ==
    \/ \E i \in 1..Len(waiters) : waiters[i].kind = "worker"
    \/ \E i \in 1..Len(ready) : ready[i].kind = "worker"
    \/ flusher.kind = "worker"

\* C26: the background worker is at every moment either in a cycle, which it
\* can go on with, or asleep, from where its next cycle can start; this holds
\* after cycles whose flush failed as after any other.
C26_WorkerLoopSurvives ==
    backend = "persistent" =>
        IF worker_busy THEN WorkerInCycle ELSE ~WorkerInCycle /\ ENABLED background_worker_wake

\* The flush of a background cycle failed (no publish raised), that cycle is
\* over, and the worker is in the flush of a later cycle.
C26_Witness ==
    /\ disk_failures > 0
    /\ \A e \in publish_ended : e.how # "raised"
    /\ \A i \in 1..Len(ready) : ready[i].phase # "failed"
    /\ worker_busy
    /\ flusher.kind = "worker"

\* C27: with the background worker running and disk writes succeeding, an entry
\* that is pending in the write buffer is eventually a line of its run's log
\* file, whether or not anything is published after it.
C27_PendingEventuallyWritten ==
    \A r \in RunIds, n \in 1..MaxEmits :
        InBuffer(model_dump(AgentEvent(r, n))) ~> OnDisk(model_dump(AgentEvent(r, n)))

\* One event was published in all, fewer than batch_size, and it is on disk:
\* a background cycle wrote it.
C27_Witness ==
    /\ Len(pub_log) = 1
    /\ Len(emitted) = 1
    /\ batch_size > 1
    /\ write_buffer = <<>>
    /\ OnDisk(model_dump(AgentEvent(pub_log[1].run_id, pub_log[1].seq)))

\* The tasks inside the critical section of the durable consumer: the one
\* suspended in its flush, and the runnable ones that own the lock (handed to
\* them by the previous owner, or kept across their flush).
Holders ==
    (IF flusher # NoTask THEN 1 ELSE 0)
    + Cardinality({i \in 1..Len(ready) : ready[i].phase \in {"locked", "flushed", "failed"}})

\* C28: on the durable backend the lock is held exactly when one task is inside
\* the critical section and never by two; and a step that changes the cache,
\* the subscriber table, the token counter or the pending buffer is taken by
\* the task that owns the lock, or takes the free lock and releases it or keeps
\* it for its flush.
C28_OneInCriticalSection ==
    /\ [](backend = "persistent" => Holders <= 1 /\ (lock_held <=> Holders = 1))
    /\ [][(backend = "persistent"
            /\ <<events, subscribers, next_token, write_buffer>>'
                 # <<events, subscribers, next_token, write_buffer>>)
           => \/ ~lock_held
              \/ /\ ready # <<>>
                 /\ Head(ready).phase \in {"locked", "flushed", "failed"}
                 /\ ready' # ready]_vars

\* The background worker is suspended in its flush, inside the critical
\* section, and a publish waits for the lock.
C28_Witness ==
    /\ lock_held
    /\ flusher.kind = "worker"
    /\ \E i \in 1..Len(waiters) : waiters[i].kind = "publish"

\* The appends publish has made for the event so far.
Appended(ev) ==
    Cardinality({j \in 1..Len(pub_log) : pub_log[j].run_id = ev.run_id /\ pub_log[j].seq = ev.seq})

IsPublishOf(task, ev) == task.kind = "publish" /\ task.run_id = ev.run_id /\ task.seq = ev.seq

\* The publish calls for the event that have not reached their append: queued
\* on the loop, waiting for the lock, or just given the lock.
NotYetAppended(ev) ==
    Cardinality({j \in 1..Len(ready) : IsPublishOf(ready[j], ev) /\ ready[j].phase \in {"start", "locked"}})
    + Cardinality({j \in 1..Len(waiters) : IsPublishOf(waiters[j], ev)})

Occurrences(seq, x) == Cardinality({j \in 1..Len(seq) : seq[j] = x})

\* C29: with any number of publish calls in flight, each emitted event is
\* either still to be appended by its publish call or was appended once: it is
\* in its run's cache at most once and only after the append, it is in the
\* pending buffer at most once and only after the append, and once appended
\* (the run not cleaned up) it is in the cache unless evicted and, on the durable
\* backend, in the buffer or on disk.
C29_EachPublishAppendsOnce ==
    \A i \in 1..Len(emitted) :
        LET ev == emitted[i] IN
        /\ Appended(ev) + NotYetAppended(ev) = 1
        /\ Occurrences(events[ev.run_id], ev) <= Appended(ev)
        /\ Occurrences(write_buffer, model_dump(ev)) <= Appended(ev)
        /\ \A r \in RunIds \ {ev.run_id} : Occurrences(events[r], ev) = 0
        /\ (Appended(ev) = 1 /\ ev.run_id \notin cleaned) =>
              /\ CachedOrEvicted(ev)
              /\ backend = "persistent" => InBuffer(model_dump(ev)) \/ OnDisk(model_dump(ev))

\* Three publish calls overlap on the durable backend: one has appended and is
\* suspended in its flush, one has appended before it, one waits for the lock.
C29_Witness ==
    /\ flusher.kind = "publish"
    /\ Len(pub_log) = 2
    /\ \E i \in 1..Len(waiters) : waiters[i].kind = "publish"

\* What get_events' full path returns: the log file's events merged with the
\* cache's, by seq, above after_seq.
FullPath(cache, lines, after_seq) ==
    merge(disk_events_of(lines, after_seq),
          SelectSeq(cache, LAMBDA e : e.seq > after_seq), after_seq)

\* C30: whenever get_events(r, k) of the durable backend answers from the cache
\* alone, its result is what the merge of log file and cache would have given,
\* and every event of the log file with seq > k is in it.
C30_FastPathEqualsFullPath ==
    backend = "persistent" =>
        \A r \in RunIds, k \in 0..MaxEmits :
            cache_suffices(SelectSeq(events[r], LAMBDA e : e.seq > k), k) =>
                /\ get_events(r, k) = FullPath(events[r], disk[r], k)
                /\ \A i \in 1..Len(disk[r]) :
                      disk[r][i].seq > k =>
                          \E j \in 1..Len(get_events(r, k)) : get_events(r, k)[j].seq = disk[r][i].seq

\* The cache has evicted seq 1, which is on disk with seq 2: get_events(r, 1) is
\* answered from the cache alone while get_events(r, 0) needs the log file.
C30_Witness ==
    /\ backend = "persistent"
    /\ \E r \in RunIds :
          /\ events[r] # <<>>
          /\ events[r][1].seq = 2
          /\ \E i \in 1..Len(disk[r]) : disk[r][i].seq = 1
          /\ \E i \in 1..Len(disk[r]) : disk[r][i].seq = 2
          /\ cache_suffices(SelectSeq(events[r], LAMBDA e : e.seq > 1), 1)
          /\ ~cache_suffices(SelectSeq(events[r], LAMBDA e : e.seq > 0), 0)

\* C31: when get_events(1, k) of the durable backend takes the replay path, its
\* result is strictly ascending in seq, its seqs are those above k of the log
\* file's event lines and of the cache together, and for a seq that the cache
\* holds the event returned is the cache's, otherwise that of a line of the file.
C31_ReplayMergesCacheWins ==
    \A k \in 0..MaxLines :
        LET memory_events == SelectSeq(events[1], LAMBDA e : e.seq > k)
            result == get_events(1, k)
        IN  ~cache_suffices(memory_events, k) =>
                /\ StrictlyAscending(result)
                /\ {result[i].seq : i \in 1..Len(result)}
                      = EventLineSeqs(1, k) \cup {memory_events[i].seq : i \in 1..Len(memory_events)}
                /\ \A i \in 1..Len(result) :
                      IF \E j \in 1..Len(memory_events) : memory_events[j].seq = result[i].seq
                      THEN \E j \in 1..Len(memory_events) : memory_events[j] = result[i]
                      ELSE \E j \in 1..Len(disk[1]) :
                              /\ disk[1][j].form = "event"
                              /\ AgentEvent(disk[1][j].run_id, disk[1][j].seq) = result[i]

\* The cache starts at seq 2, the log file holds seq 1 and a line for seq 2 that
\* differs from the cached event: get_events(1, 0) replays and meets the conflict.
C31_Witness ==
    /\ events[1] # <<>>
    /\ events[1][1].seq = 2
    /\ \E j \in 1..Len(disk[1]) : disk[1][j].seq = 1 /\ disk[1][j].form = "event"
    /\ \E j \in 1..Len(disk[1]) :
          disk[1][j].seq = 2 /\ disk[1][j].form = "event" /\ disk[1][j].run_id # 1
    /\ Len(get_events(1, 0)) = Len(events[1]) + 1

\* A publish call of the durable backend ends normally in this step, for the
\* event of the task at the head of the loop's queue.
DurablePublishReturns ==
    /\ backend = "persistent"
    /\ PersistentConsumer_publish \/ PersistentConsumer_publish_resume
    /\ \E e \in publish_ended' \ publish_ended : e.how = "returned"

\* The positions in the queue q of the callback tasks for the event of task h.
CallbackPositions(q, h) ==
    {i \in 1..Len(q) : q[i].kind = "callback" /\ q[i].run_id = h.run_id /\ q[i].seq = h.seq}

\* The positions in the queue q of the tasks that own the lock.
OwnerPositions(q) == {i \in 1..Len(q) : q[i].phase = "locked"}

\* C32, as stated: the callback tasks of a publish are created after its
\* critical section has ended: when the publish hands the lock to a waiting
\* task, that task has been made runnable before any of the callback tasks.
C32_FanOutAfterRelease ==
    [][(DurablePublishReturns /\ waiters # <<>>) =>
          \A c \in CallbackPositions(ready', Head(ready)) :
              \A o \in OwnerPositions(ready') : o < c]_vars

\* C32, the part about waiting: the step in which a publish returns runs no
\* callback; its callback tasks are on the loop's queue, one per subscriber.
C32_PublishAwaitsNoCallback ==
    [][DurablePublishReturns =>
          /\ delivered' = delivered
          /\ Cardinality(CallbackPositions(ready', Head(ready)))
                >= Len(subscribers[Head(ready).run_id])]_vars

\* This step belongs to a call of publish, subscribe, unsubscribe or cleanup
\* for run a: the call itself, a publish's return from its flush, or the end
\* of a write of the flush the publish is suspended in.
OperationFor(a) ==
    \/ /\ ready # <<>>
       /\ Head(ready).kind = "publish"
       /\ Head(ready).run_id = a
       /\ \/ VirtualConsumer_publish
          \/ PersistentConsumer_publish
          \/ PersistentConsumer_publish_resume
    \/ /\ flusher.kind = "publish"
       /\ flusher.run_id = a
       /\ \E i \in 1..Len(writes) : ~writes[i].orphan /\ \E ok \in BOOLEAN : DiskWrite(i, ok)
    \/ \E cb \in Callbacks : SubscribeStep(a, cb)
    \/ \E token \in 1..MaxTokens : UnsubscribeStep(a, token)
    \/ VirtualConsumer_cleanup(a)
    \/ PersistentConsumer_cleanup(a)

\* The callback tasks for events of run b in the queue q.
CallbacksOf(q, b) == SelectSeq(q, LAMBDA t : t.kind = "callback" /\ t.run_id = b)

\* The pending buffer entries of run b.
PendingOf(b) == SelectSeq(write_buffer, LAMBDA d : d.run_id = b)

\* C33, as stated: a step of an operation for run a changes, for another run b,
\* neither the result of get_events(b, k) for any k, nor b's subscriptions, nor
\* the callback tasks for b, and runs no callback.
C33_RunsIsolated ==
    [][\A a \in RunIds, b \in RunIds :
          (a # b /\ OperationFor(a)) =>
              /\ \A k \in 0..MaxEmits :
                    read(backend', events'[b], disk'[b], k) = read(backend, events[b], disk[b], k)
              /\ subscribers'[b] = subscribers[b]
              /\ CallbacksOf(ready', b) = CallbacksOf(ready, b)
              /\ delivered' = delivered]_vars

\* C33, without the log file: a step of an operation for run a changes, for
\* another run b, neither b's cache, nor b's subscriptions, nor the callback tasks for b, and runs no
\* callback; b's log file it leaves as it is or extends by b's pending entries.
C33_RunsIsolatedButForFlush ==
    [][\A a \in RunIds, b \in RunIds :
          (a # b /\ OperationFor(a)) =>
              /\ events'[b] = events[b]
              /\ disk'[b] = disk[b] \/ disk'[b] = disk[b] \o PendingOf(b)
              /\ subscribers'[b] = subscribers[b]
              /\ CallbacksOf(ready', b) = CallbacksOf(ready, b)
              /\ delivered' = delivered]_vars

\* The events emitted in run r, in emission order.
EmittedIn(r) == SelectSeq(emitted, LAMBDA e : e.run_id = r)

\* C34: before the first emit of a run first_seq and last_seq are unset; after
\* k >= 1 emits first_seq is the seq of the run's first emitted event, last_seq
\* the seq of its most recently emitted event and first_seq <= last_seq; once
\* set, first_seq never changes.
C34_FirstAndLastSeq ==
    /\ [](\A r \in RunIds :
            LET es == EmittedIn(r) IN
            IF es = <<>>
            THEN ctx[r].first_seq = NoSeq /\ ctx[r].last_seq = NoSeq
            ELSE /\ ctx[r].first_seq = es[1].seq
                 /\ ctx[r].last_seq = es[Len(es)].seq
                 /\ ctx[r].first_seq <= ctx[r].last_seq)
    /\ [][\A r \in RunIds :
            ctx[r].first_seq # NoSeq => ctx'[r].first_seq = ctx[r].first_seq]_vars

\* A run has emitted three events and another run has not emitted yet.
C34_Witness ==
    \E r \in RunIds, q \in RunIds :
        /\ Len(EmittedIn(r)) = 3
        /\ ctx[r].first_seq = 1
        /\ ctx[r].last_seq = 3
        /\ run_state[q] = "running"
        /\ EmittedIn(q) = <<>>
        /\ ctx[q].first_seq = NoSeq

\* Every line of s is above all lines before it or repeats one of them.
NewLinesAscending(s) ==
    \A j \in 1..Len(s) :
        \/ \A i \in 1..(j - 1) : s[i].seq < s[j].seq
        \/ \E k \in 1..(j - 1) : s[k].seq = s[j].seq

\* C35, as stated: the events of a run reach the consumer in emission order
\* under every scheduling of the publish tasks and of the lock hand-over: the
\* appends of the run's publishes were made in ascending seq, the run's cache
\* and its pending entries are in ascending seq, and every line that is new to
\* the run's log file is above all lines before it.
C35_AppliedInEmissionOrder ==
    \A r \in RunIds :
        /\ StrictlyAscending(PublishedEvents(r))
        /\ StrictlyAscending(events[r])
        /\ StrictlyAscending(PendingOf(r))
        /\ NewLinesAscending(disk[r])

\* C35, without the log file: the appends of a run's publishes, its cache and
\* its pending entries are in ascending seq, and so is the content of every
\* write of a flush.
C35_AppendsInEmissionOrder ==
    /\ \A r \in RunIds :
            /\ StrictlyAscending(PublishedEvents(r))
            /\ StrictlyAscending(events[r])
            /\ StrictlyAscending(PendingOf(r))
    /\ \A i \in 1..Len(writes) : StrictlyAscending(writes[i].content)

\* The entry d is in the sequence s.
InSeq(s, d) == \E i \in 1..Len(s) : s[i] = d

\* C36, as stated: the flush never discards an unwritten event. An entry leaves the
\* pending buffer only in the step that ends a flush whose writes all
\* completed, and it is then a line of its run's log file; and every published
\* event of a run that was not cleaned up is in the cache, in the pending
\* buffer or in the log file.
C36_FlushDiscardsNothing ==
    /\ [][\A i \in 1..Len(write_buffer) :
            ~InSeq(write_buffer', write_buffer[i]) =>
                /\ FlushEnds({"flushed"})
                /\ OnDisk(write_buffer[i])]_vars
    /\ [](backend = "persistent" =>
            \A i \in 1..Len(pub_log) :
                LET ev == AgentEvent(pub_log[i].run_id, pub_log[i].seq) IN
                ev.run_id \notin cleaned =>
                    \/ InSeq(events[ev.run_id], ev)
                    \/ InSeq(write_buffer, model_dump(ev))
                    \/ InSeq(disk[ev.run_id], model_dump(ev)))

\* C36, with the deletions: an entry leaves the pending buffer only in the step
\* that ends a flush whose writes all completed, and it is then a line of its
\* run's log file; and a line leaves a run's log file only by the cleanup of
\* the run or by the retention sweep of a background cycle.
C36_DiscardedOnlyByDeletion ==
    /\ [][\A i \in 1..Len(write_buffer) :
            ~InSeq(write_buffer', write_buffer[i]) =>
                /\ FlushEnds({"flushed"})
                /\ OnDisk(write_buffer[i])]_vars
    /\ [][\A r \in RunIds : \A i \in 1..Len(disk[r]) :
            ~InSeq(disk'[r], disk[r][i]) =>
                \/ PersistentConsumer_cleanup(r)
                \/ WorkerCycleEnds /\ r \in expired]_vars

\* A flush over the entries of both runs has ended with no write failed: the
\* buffer is empty and every published event is a line of its run's file.
C36_Witness ==
    /\ backend = "persistent"
    /\ disk_failures = 0
    /\ cleaned = {}
    /\ flusher = NoTask
    /\ write_buffer = <<>>
    /\ \A r \in RunIds : disk[r] # <<>>
    /\ \A i \in 1..Len(pub_log) : OnDisk(model_dump(AgentEvent(pub_log[i].run_id, pub_log[i].seq)))

\* No two lines of the sequence carry the same seq.
NoSeqTwice(lines) ==
    \A i \in 1..Len(lines), j \in 1..Len(lines) : i # j => lines[i].seq # lines[j].seq

\* C37, as stated: on the durable backend each published event is written to
\* its run's log file at most once: the file never holds two lines with the
\* same seq, also after a flush in which a write failed.
C37_WrittenAtMostOnce ==
    \A r \in RunIds : NoSeqTwice(disk[r])

\* C37, while every write succeeds: as long as no write has failed, no log file
\* holds two lines with the same seq.
C37_WrittenOnceWithoutFailure ==
    disk_failures = 0 => \A r \in RunIds : NoSeqTwice(disk[r])

\* The position in the publish history of the append of event seq n of run r.
PublishIndex(r, n) == CHOOSE k \in 1..Len(pub_log) : pub_log[k].run_id = r /\ pub_log[k].seq = n

\* The callback invocations of subscription token: those begun, in the order
\* they began, then those still queued on the loop, in queue order.
InvocationsOf(token) ==
    LET begun == SelectSeq(delivered, LAMBDA d : d.token = token)
        queued == SelectSeq(ready, LAMBDA t : t.kind = "callback" /\ t.token = token)
    IN  [i \in 1..Len(begun) |-> [run_id |-> begun[i].run_id, seq |-> begun[i].seq]]
        \o [i \in 1..Len(queued) |-> [run_id |-> queued[i].run_id, seq |-> queued[i].seq]]

\* C38: for one subscriber the callbacks are started in the order the events
\* were published: of two invocations for the same subscription, the one that
\* began first (or will begin first, both still queued) is for the event of
\* the run that was published first.
C38_CallbacksInPublishOrder ==
    \A token \in 1..MaxTokens :
        LET inv == InvocationsOf(token) IN
        \A i \in 1..Len(inv), j \in 1..Len(inv) :
            i < j => PublishIndex(inv[i].run_id, inv[i].seq) < PublishIndex(inv[j].run_id, inv[j].seq)

\* One subscription has had the callbacks for two events of its run started.
C38_Witness ==
    \E i \in 1..Len(delivered), j \in 1..Len(delivered) :
        /\ i < j
        /\ delivered[i].token = delivered[j].token
        /\ delivered[i].run_id = delivered[j].run_id
        /\ delivered[i].seq < delivered[j].seq

\* ------------------------------------------------------ the lock's clients
\* The operations besides publish that run inside async with self._lock.
ClientOps == {"subscribe", "unsubscribe", "get_events", "cleanup", "get_stats"}

\* The subscribe calls that have not reached their critical section.
PendingSubscribes ==
    Cardinality({i \in 1..Len(ready) : ready[i].kind = "subscribe"})
    + Cardinality({i \in 1..Len(waiters) : waiters[i].kind = "subscribe"})

\* The critical section of task h, an operation on run h.run_id, from the lock
\* on: subscribe and unsubscribe change the table and leave; get_events leaves
\* when the cache suffices or there is no log file and is else suspended in the
\* read; cleanup drops cache and table and is suspended in the unlink when the
\* file exists; get_stats is suspended in the directory listing. A suspended
\* task keeps the lock.
ClientSection(h, rdy) ==
    LET r == h.run_id
        rel == Release(rdy)
        suspended == \/ h.kind = "get_stats"
                     \/ h.kind = "get_events" /\ ~cache_suffices(events[r], 0) /\ disk[r] # <<>>
                     \/ h.kind = "cleanup" /\ disk[r] # <<>>
    IN  /\ events' = IF h.kind = "cleanup" THEN [events EXCEPT ![r] = <<>>] ELSE events
        /\ subscribers' =
              CASE h.kind = "subscribe" ->
                     [subscribers EXCEPT ![r] = Append(@, [token |-> next_token, cb |-> "healthy"])]
                [] h.kind = "unsubscribe" -> [subscribers EXCEPT ![r] = pop_token(@, h.token)]
                [] h.kind = "cleanup" -> [subscribers EXCEPT ![r] = <<>>]
                [] OTHER -> subscribers
        /\ next_token' = IF h.kind = "subscribe" THEN next_token + 1 ELSE next_token
        /\ cleaned' = IF h.kind = "cleanup" THEN cleaned \cup {r} ELSE cleaned
        /\ IF suspended
           THEN /\ flusher' = [h EXCEPT !.phase = "disk"]
                /\ lock_held' = TRUE
                /\ ready' = rdy
                /\ UNCHANGED waiters
           ELSE /\ ready' = rel.ready
                /\ lock_held' = rel.lock_held
                /\ waiters' = rel.waiters
                /\ UNCHANGED flusher

\* async with self._lock, entering: the task goes on when the lock is free and
\* else waits behind the tasks that asked before it.
ClientEnter(h, rdy) ==
    IF lock_held
    THEN /\ waiters' = Append(waiters, [h EXCEPT !.phase = "locked"])
         /\ ready' = rdy
         /\ UNCHANGED <<events, subscribers, next_token, cleaned, lock_held, flusher>>
    ELSE ClientSection(h, rdy)

\* _safe_callback with a callback that calls back into the consumer: the
\* callback task awaits the operation op for the run of its event.
safe_callback_calling(op) ==
    /\ backend = "persistent"
    /\ ready # <<>>
    /\ Head(ready).kind = "callback"
    /\ op = "subscribe" => next_token + PendingSubscribes <= MaxTokens
    /\ LET h == Head(ready) IN
        /\ delivered' = Append(delivered,
              [token |-> h.token, cb |-> h.cb, run_id |-> h.run_id, seq |-> h.seq,
               outcome |-> "ok"])
        /\ ClientEnter([h EXCEPT !.kind = op, !.phase = "start"], Tail(ready))
    /\ UNCHANGED <<gatewayVars, backend, write_buffer, interval_elapsed, disk, expired, writes,
                   worker_busy, pub_log, publish_ended, disk_failures>>

\* The worker thread of a suspended operation is done (asyncio.to_thread
\* returns): the file is read, unlinked or counted and the task is runnable.
DiskOperation ==
    /\ flusher.kind \in ClientOps
    /\ disk' = IF flusher.kind = "cleanup" THEN [disk EXCEPT ![flusher.run_id] = <<>>] ELSE disk
    /\ expired' = IF flusher.kind = "cleanup" THEN expired \ {flusher.run_id} ELSE expired
    /\ ready' = Append(ready, [flusher EXCEPT !.phase = "resumed"])
    /\ flusher' = NoTask
    /\ UNCHANGED <<gatewayVars, backend, memVars, lock_held, waiters, write_buffer,
                   interval_elapsed, writes, worker_busy, histVars>>

\* An operation resumed: with the lock after waiting for it, or after its disk
\* operation, when it returns and leaves the lock.
client_resume ==
    /\ ready # <<>>
    /\ Head(ready).kind \in ClientOps
    /\ LET h == Head(ready)
           rel == Release(Tail(ready))
       IN  IF h.phase = "locked"
           THEN ClientSection(h, Tail(ready))
           ELSE /\ ready' = rel.ready
                /\ lock_held' = rel.lock_held
                /\ waiters' = rel.waiters
                /\ UNCHANGED <<events, subscribers, next_token, cleaned, flusher>>
    /\ UNCHANGED <<gatewayVars, backend, write_buffer, interval_elapsed, disk, expired, writes,
                   worker_busy, pub_log, publish_ended, delivered, disk_failures>>

\* Lock: the durable backend with one subscriber per run, a producer, publishes
\* with their flushes, the background worker, disk writes that may fail, and
\* callbacks that return or call back into the consumer. The event loop runs
\* every runnable task, the worker's sleep ends and every disk operation ends.
InitLock ==
    /\ backend = "persistent"
    /\ Init_gateway
    /\ ready = <<>>
    /\ events = [r \in RunIds |-> <<>>]
    /\ subscribers = [r \in RunIds |-> IF r = 1 THEN <<[token |-> 1, cb |-> "healthy"]>> ELSE <<>>]
    /\ next_token = 2
    /\ lock_held = FALSE
    /\ waiters = <<>>
    /\ write_buffer = <<>>
    /\ interval_elapsed = FALSE
    /\ disk = [r \in RunIds |-> <<>>]
    /\ expired = {}
    /\ flusher = NoTask
    /\ writes = <<>>
    /\ worker_busy = FALSE
    /\ pub_log = <<>>
    /\ publish_ended = {}
    /\ delivered = <<>>
    /\ cleaned = {}
    /\ disk_failures = 0

NextLock ==
    \/ Producer
    \/ PersistentConsumer_publish
    \/ PersistentConsumer_publish_resume
    \/ \E i \in 1..MaxRuns, ok \in BOOLEAN : DiskWrite(i, ok)
    \/ background_worker_wake
    \/ background_worker_resume
    \/ safe_callback
    \/ \E op \in ClientOps : safe_callback_calling(op)
    \/ DiskOperation
    \/ client_resume

SpecLock ==
    /\ InitLock
    /\ [][NextLock]_vars
    /\ WF_vars(PersistentConsumer_publish)
    /\ WF_vars(PersistentConsumer_publish_resume)
    /\ WF_vars(\E i \in 1..MaxRuns, ok \in BOOLEAN : DiskWrite(i, ok))
    /\ WF_vars(background_worker_wake)
    /\ WF_vars(background_worker_resume)
    /\ WF_vars(safe_callback \/ \E op \in ClientOps : safe_callback_calling(op))
    /\ WF_vars(DiskOperation)
    /\ WF_vars(client_resume)

\* A task, whatever its position: the operation, the run and the event or
\* subscription it is about.
TaskId(t) == [kind |-> t.kind, run_id |-> t.run_id, seq |-> t.seq, token |-> t.token]

\* The tasks that can ask for the lock: the publishes, the worker and the
\* operations called from the callbacks.
LockUsers ==
    [kind : {"publish"}, run_id : RunIds, seq : 1..MaxEmits, token : {NoToken}]
    \cup [kind : {"worker"}, run_id : {NoRun}, seq : {NoSeq}, token : {NoToken}]
    \cup [kind : ClientOps, run_id : RunIds, seq : 1..MaxEmits, token : 1..MaxTokens]

\* The task waits for the lock.
Waiting(id) == \E i \in 1..Len(waiters) : TaskId(waiters[i]) = id

\* The task is in its critical section: suspended there, or runnable with the lock.
InSection(id) ==
    \/ flusher # NoTask /\ TaskId(flusher) = id
    \/ \E i \in 1..Len(ready) :
          TaskId(ready[i]) = id /\ ready[i].phase \in {"locked", "flushed", "failed", "resumed"}

\* C39: the lock is never requested by its holder and never held forever. No
\* task waits for the lock while it is in its critical section; the lock is
\* held exactly while one task is in its critical section; the queue of
\* waiters changes only by a task joining at its end or by its first task
\* being given the lock; and, every disk operation ending, the queue of waiters
\* empties and the lock comes free again and again: every task that asks for
\* the lock gets it and leaves it.
C39_LockAcquiredAndReleased ==
    /\ [](\A id \in LockUsers : ~(Waiting(id) /\ InSection(id)))
    /\ [](lock_held <=> \E id \in LockUsers : InSection(id))
    /\ [][waiters' # waiters =>
            \/ Len(waiters') = Len(waiters) + 1 /\ SubSeq(waiters', 1, Len(waiters)) = waiters
            \/ /\ waiters # <<>>
               /\ waiters' = Tail(waiters)
               /\ lock_held'
               /\ ready' # <<>>
               /\ ready'[Len(ready')] = Head(waiters)]_vars
    /\ (waiters # <<>>) ~> (waiters = <<>>)
    /\ lock_held ~> ~lock_held

\* A callback's call into the consumer waits for the lock while a publish is
\* suspended in its flush, and another publish waits too.
C39_Witness ==
    /\ flusher.kind = "publish"
    /\ \E i \in 1..Len(waiters) : waiters[i].kind \in ClientOps
    /\ \E i \in 1..Len(waiters) : waiters[i].kind = "publish"

\* C40: clear_execution_context leaves the calling task with no active context
\* and restores nothing: when a run nested in another run's call chain ends,
\* the task has no context although the outer run goes on, and an emit of the
\* task in that position returns the warning and is neither sequenced nor
\* published. A task in a run has that run's context or none.
C40_ClearRestoresNothing ==
    /\ [](\A t \in Tasks :
            call_stack[t] # <<>> =>
                current_ctx[t] \in {NoRun, call_stack[t][Len(call_stack[t])]})
    /\ [][\A t \in Tasks :
            /\ Len(call_stack'[t]) < Len(call_stack[t]) /\ call_stack'[t] # <<>> =>
                    /\ current_ctx'[t] = NoRun
                    /\ run_state'[call_stack'[t][Len(call_stack'[t])]] = "running"
            /\ /\ call_stack[t] # <<>>
               /\ current_ctx[t] = NoRun
               /\ emit_result'[t] # emit_result[t]
               => /\ emit_result'[t] = EmitEventWarning
                  /\ UNCHANGED <<ctx, emitted, ready>>]_vars

\* A run nested in a run that had emitted has ended, the outer run is still
\* running, and the task's next emit got the warning.
C40_Witness ==
    \E t \in Tasks, outer \in RunIds, inner \in RunIds :
        /\ call_stack[t] = <<outer>>
        /\ run_state[outer] = "running"
        /\ ctx[outer].last_seq >= 1
        /\ run_task[inner] = t
        /\ run_state[inner] \in {"returned", "raised"}
        /\ current_ctx[t] = NoRun
        /\ emit_result[t] = EmitEventWarning

====
